---- MODULE Spec2Model ----
(***************************************************************************)
(* Chunked resumable upload of drive-uploader (src/src/index.ts).          *)
(*                                                                         *)
(* The model has three parties:                                            *)
(*   - the Upload Driver, the browser script (submit handler and           *)
(*     uploadFileInChunks), a sequential process whose position is pc;     *)
(*   - the worker (handleUploadInit, handleChunkUpload), which keeps no    *)
(*     state between requests and is modelled by operators from a request  *)
(*     and the upstream's answer to a response;                            *)
(*   - the upstream (Google Drive), an external party whose answers are    *)
(*     chosen nondeterministically.                                        *)
(*                                                                         *)
(* Spec      : one page driving transfers through the worker.              *)
(* SpecRelay : the chunk relay handling arbitrary chunk-upload requests.   *)
(***************************************************************************)
EXTENDS Integers, Sequences, FiniteSets, TLC

(***************************************************************************)
(* Bounds of the model.                                                    *)
(***************************************************************************)
MaxFileSize == 4
MaxChunkSize == 3

(***************************************************************************)
(* Program constants.                                                      *)
(***************************************************************************)
MAX_CHUNK_SIZE == 100 * 1024 * 1024
DefaultChunkSize == 10 * 1024 * 1024

\* The worked example of the specification: a 25 000 000 byte file.
ExampleTotalSize == 25 * 1000 * 1000

(***************************************************************************)
(* Optional values (undefined / null / absent header): <<>> is absent,     *)
(* <<v>> is present.                                                       *)
(***************************************************************************)
None == <<>>
Some(v) == <<v>>
IsSome(m) == Len(m) = 1
Get(m) == m[1]

\* JavaScript's  a || b  on strings: the empty string is falsy.
OrElse(a, b) == IF a # "" THEN a ELSE b

Min(a, b) == IF a < b THEN a ELSE b

\* Math.ceil(a / b) for a >= 0, b > 0.
Ceil(a, b) == (a + b - 1) \div b

\* Math.round(a / b * 100) for 0 <= a, 0 < b (round half up), by long
\* division so that no intermediate value exceeds 10 * max(a, b).
RoundPct(a, b) ==
    LET q1 == (10 * a) \div b
        r1 == (10 * a) % b
        q2 == (10 * r1) \div b
        r2 == (10 * r1) % b
    IN  10 * q1 + q2 + (IF 2 * r2 >= b THEN 1 ELSE 0)

\* Boolean.prototype.toString
BoolToString(b) == IF b THEN "true" ELSE "false"

(***************************************************************************)
(* The upstream's answers.                                                 *)
(***************************************************************************)
SessionUrl == "https://upstream/session/1"
OtherSessionUrl == "https://upstream/session/2"

\* The object metadata the upstream echoes when an upload is finalized.
DriveRecord == [id |-> "drive-file-1", name |-> "stored.bin",
                size |-> 4, mimeType |-> "text/plain"]
DriveRecordJson == "{\"id\":\"drive-file-1\"}"

\* Response bodies: a text, or a body whose read fails (readable = FALSE).
BodyTexts == {DriveRecordJson, "null", "quota exceeded", ""}
Bodies == [readable : {TRUE}, text : BodyTexts]
            \cup {[readable |-> FALSE, text |-> ""]}

UpstreamStatuses == {308, 200, 201, 400, 500}

\* What fetch(sessionUrl, PUT) gives the relay: a response, or a throw.
ChunkAnswers ==
    [thrown : {FALSE}, status : UpstreamStatuses, body : Bodies,
     message : {""}]
    \cup {[thrown |-> TRUE, status |-> 0,
           body |-> [readable |-> FALSE, text |-> ""],
           message |-> "fetch failed"]}

(***************************************************************************)
(* Response.json() on an upstream body: <<"throw">> when the body cannot   *)
(* be read or is not JSON, <<"null">> for the JSON literal null, and       *)
(* <<"object", record>> for a JSON object.                                 *)
(***************************************************************************)
JsonParse(body) ==
    IF ~body.readable THEN <<"throw">>
    ELSE IF body.text = DriveRecordJson THEN <<"object", DriveRecord>>
    ELSE IF body.text = "null" THEN <<"null">>
    ELSE <<"throw">>

\* Mutant: an unreadable body reads as the sentinel of safeText.
TextOrEmpty_sentinel(body) == IF body.readable THEN body.text ELSE "<no body>"

\* response.text().catch(() => '')
TextOrEmpty(body) == IF body.readable THEN body.text ELSE ""

(***************************************************************************)
(* json(data, status): the worker's JSON response.  One record shape for   *)
(* all bodies; absent members are None / "".                               *)
(***************************************************************************)
JsonResponse(httpStatus, ok, status, fileData, error, sessionUrl) ==
    [httpStatus |-> httpStatus,
     httpOk     |-> (httpStatus >= 200 /\ httpStatus <= 299),
     ok         |-> ok,
     status     |-> status,
     fileData   |-> fileData,
     error      |-> error,
     sessionUrl |-> sessionUrl,
     cors       |-> TRUE]

ErrorResponse(msg, httpStatus) ==
    JsonResponse(httpStatus, FALSE, "", None, msg, None)

\* err?.message || String(err) for an Error with the given message.
ErrMessage(msg) == OrElse(msg, "Error")

(***************************************************************************)
(* parseInt(request.headers.get(h) || '0'): an absent header reads 0; the  *)
(* Driver writes non-negative integers in decimal, which parseInt reads    *)
(* back unchanged.                                                         *)
(***************************************************************************)
ParseIntHeader(h) == IF IsSome(h) THEN Get(h) ELSE 0

ContentRange(start, end, total) ==
    "bytes " \o ToString(start) \o "-" \o ToString(end) \o "/"
        \o ToString(total)

TooLargeMessage(chunkSize) ==
    "Chunk size " \o ToString(chunkSize)
        \o " bytes exceeds maximum allowed size of "
        \o ToString(MAX_CHUNK_SIZE) \o " bytes"

UpstreamFailedMessage(status, errorText) ==
    "Upload failed with status " \o ToString(status) \o ": " \o errorText

\* Mutant: only status 200 counts as complete, 201 is an error.
InterpretUpstream_only200(up) ==
    IF up.thrown THEN ErrorResponse(ErrMessage(up.message), 500)
    ELSE IF up.status = 308
        THEN JsonResponse(200, TRUE, "continue", None, "", None)
    ELSE IF up.status = 200
        THEN LET parsed == JsonParse(up.body) IN
             IF parsed[1] = "object"
                 THEN JsonResponse(200, TRUE, "complete",
                                   Some(parsed[2]), "", None)
                 ELSE JsonResponse(200, TRUE, "complete", None, "", None)
    ELSE ErrorResponse(
             ErrMessage(UpstreamFailedMessage(up.status,
                                              TextOrEmpty(up.body))), 500)

\* Mutant: a final body that does not parse is reported as a failure.
InterpretUpstream_parseFailIsError(up) ==
    IF up.thrown THEN ErrorResponse(ErrMessage(up.message), 500)
    ELSE IF up.status = 308
        THEN JsonResponse(200, TRUE, "continue", None, "", None)
    ELSE IF up.status = 200 \/ up.status = 201
        THEN LET parsed == JsonParse(up.body) IN
             IF parsed[1] = "object"
                 THEN JsonResponse(200, TRUE, "complete",
                                   Some(parsed[2]), "", None)
                 ELSE ErrorResponse("Unexpected end of JSON input", 500)
    ELSE ErrorResponse(
             ErrMessage(UpstreamFailedMessage(up.status,
                                              TextOrEmpty(up.body))), 500)

(***************************************************************************)
(* The relay's reading of the upstream's answer to the chunk PUT           *)
(* (handleChunkUpload, after the fetch).                                   *)
(***************************************************************************)
InterpretUpstream(up) ==
    IF up.thrown THEN ErrorResponse(ErrMessage(up.message), 500)
    ELSE IF up.status = 308
        THEN JsonResponse(200, TRUE, "continue", None, "", None)
    ELSE IF up.status = 200 \/ up.status = 201
        THEN LET parsed == JsonParse(up.body) IN
             \* fileData.id throws on null, inside the same try block
             IF parsed[1] = "object"
                 THEN JsonResponse(200, TRUE, "complete",
                                   Some(parsed[2]), "", None)
                 ELSE JsonResponse(200, TRUE, "complete", None, "", None)
    ELSE ErrorResponse(
             ErrMessage(UpstreamFailedMessage(up.status,
                                              TextOrEmpty(up.body))), 500)

\* The PUT that handleChunkUpload issues for a request.
PutOf(req) ==
    [url           |-> Get(req.sessionUrl),
     contentLength |-> req.len,
     contentRange  |-> ContentRange(ParseIntHeader(req.chunkStart),
                                    ParseIntHeader(req.chunkEnd),
                                    ParseIntHeader(req.totalSize))]

\* Mutant: the relay repeats the PUT once when the upstream rejects it.
handleChunkUpload_retry(req, up) ==
    IF ~IsSome(req.sessionUrl) \/ Get(req.sessionUrl) = ""
        THEN [resp |-> ErrorResponse("Missing session URL", 400),
              puts |-> <<>>]
    ELSE IF req.len > MAX_CHUNK_SIZE
        THEN [resp |-> ErrorResponse(TooLargeMessage(req.len), 413),
              puts |-> <<>>]
    ELSE [resp |-> InterpretUpstream(up),
          puts |-> IF up.thrown \/ up.status \in {308, 200, 201}
                       THEN <<PutOf(req)>>
                       ELSE <<PutOf(req), PutOf(req)>>]

\* Mutant: the relay keeps one session handle and sends every PUT to it,
\* whatever handle the request names.
handleChunkUpload_rememberedSession(req, up) ==
    IF ~IsSome(req.sessionUrl) \/ Get(req.sessionUrl) = ""
        THEN [resp |-> ErrorResponse("Missing session URL", 400),
              puts |-> <<>>]
    ELSE IF req.len > MAX_CHUNK_SIZE
        THEN [resp |-> ErrorResponse(TooLargeMessage(req.len), 413),
              puts |-> <<>>]
    ELSE [resp |-> InterpretUpstream(up),
          puts |-> <<PutOf([req EXCEPT !.sessionUrl = Some(SessionUrl)])>>]

\* Mutant: the size check rejects a payload of exactly the maximum.
handleChunkUpload_rejectsAtLimit(req, up) ==
    IF ~IsSome(req.sessionUrl) \/ Get(req.sessionUrl) = ""
        THEN [resp |-> ErrorResponse("Missing session URL", 400),
              puts |-> <<>>]
    ELSE IF req.len >= MAX_CHUNK_SIZE
        THEN [resp |-> ErrorResponse(TooLargeMessage(req.len), 413),
              puts |-> <<>>]
    ELSE [resp |-> InterpretUpstream(up), puts |-> <<PutOf(req)>>]

(***************************************************************************)
(* handleChunkUpload(request): the response, and the PUTs issued to the    *)
(* session handle while handling the request.  req.sessionUrl is the       *)
(* X-Session-Url header (None when absent), req.len the payload length.    *)
(***************************************************************************)
handleChunkUpload(req, up) ==
    IF ~IsSome(req.sessionUrl) \/ Get(req.sessionUrl) = ""
        THEN [resp |-> ErrorResponse("Missing session URL", 400),
              puts |-> <<>>]
    ELSE IF req.len > MAX_CHUNK_SIZE
        THEN [resp |-> ErrorResponse(TooLargeMessage(req.len), 413),
              puts |-> <<>>]
    ELSE [resp |-> InterpretUpstream(up), puts |-> <<PutOf(req)>>]

(***************************************************************************)
(* The credential provider's and the upstream's answers to a session open. *)
(***************************************************************************)
TokenAnswers ==
    {[ok |-> TRUE,  status |-> 200, text |-> "", token |-> "ya29.token"],
     [ok |-> FALSE, status |-> 401, text |-> "invalid_grant", token |-> ""]}

OpenAnswers ==
    {[ok |-> TRUE,  status |-> 200, location |-> Some(SessionUrl),
      body |-> [readable |-> TRUE, text |-> ""]],
     [ok |-> TRUE,  status |-> 200, location |-> Some(OtherSessionUrl),
      body |-> [readable |-> TRUE, text |-> ""]],
     [ok |-> TRUE,  status |-> 200, location |-> None,
      body |-> [readable |-> TRUE, text |-> ""]],
     [ok |-> FALSE, status |-> 403, location |-> None,
      body |-> [readable |-> TRUE, text |-> "quota exceeded"]],
     [ok |-> FALSE, status |-> 500, location |-> None,
      body |-> [readable |-> FALSE, text |-> ""]]}

\* safeText(resp)
safeText(body) == IF body.readable THEN body.text ELSE "<no body>"

\* getAccessToken(env): <<"ok", token>> or <<"throw", message>>.
getAccessToken(tok) ==
    IF tok.ok THEN <<"ok", tok.token>>
    ELSE <<"throw", "Token exchange failed (" \o ToString(tok.status)
                        \o "): " \o tok.text>>

\* Mutant: a success without a Location header is taken as a session.
createResumableSession_noLocationCheck(open) ==
    IF ~open.ok
        THEN <<"throw", "Failed to start resumable session ("
                            \o ToString(open.status) \o "): "
                            \o safeText(open.body)>>
    ELSE IF ~IsSome(open.location) THEN <<"ok", "">>
    ELSE <<"ok", Get(open.location)>>

\* createResumableSession(args): <<"ok", location>> or <<"throw", message>>.
createResumableSession(open) ==
    IF ~open.ok
        THEN <<"throw", "Failed to start resumable session ("
                            \o ToString(open.status) \o "): "
                            \o safeText(open.body)>>
    ELSE IF ~IsSome(open.location) \/ Get(open.location) = ""
        THEN <<"throw",
               "Google did not return resumable session Location header">>
    ELSE <<"ok", Get(open.location)>>

\* Mutant: the token is requested before the request is validated.
handleUploadInit_tokenFirst(req, tok, open) ==
    LET t == getAccessToken(tok) IN
    IF t[1] = "throw"
        THEN [resp |-> ErrorResponse(ErrMessage(t[2]), 500),
              tokenCalls |-> 1, openCalls |-> 0]
    ELSE IF req.filename = "" \/ req.size = 0
        THEN [resp |-> ErrorResponse("Missing filename or size", 400),
              tokenCalls |-> 1, openCalls |-> 0]
    ELSE LET s == createResumableSession(open) IN
         IF s[1] = "throw"
             THEN [resp |-> ErrorResponse(ErrMessage(s[2]), 500),
                   tokenCalls |-> 1, openCalls |-> 1]
             ELSE [resp |-> JsonResponse(200, TRUE, "", None, "",
                                         Some(s[2])),
                   tokenCalls |-> 1, openCalls |-> 1]

(***************************************************************************)
(* handleUploadInit(request): the response, and how many calls went to the *)
(* credential provider and to the upstream while handling the request.     *)
(***************************************************************************)
handleUploadInit(req, tok, open) ==
    IF req.filename = "" \/ req.size = 0
        THEN [resp |-> ErrorResponse("Missing filename or size", 400),
              tokenCalls |-> 0, openCalls |-> 0]
    ELSE LET t == getAccessToken(tok) IN
         IF t[1] = "throw"
             THEN [resp |-> ErrorResponse(ErrMessage(t[2]), 500),
                   tokenCalls |-> 1, openCalls |-> 0]
         ELSE LET s == createResumableSession(open) IN
              IF s[1] = "throw"
                  THEN [resp |-> ErrorResponse(ErrMessage(s[2]), 500),
                        tokenCalls |-> 1, openCalls |-> 1]
                  ELSE [resp |-> JsonResponse(200, TRUE, "", None, "",
                                              Some(s[2])),
                        tokenCalls |-> 1, openCalls |-> 1]

(***************************************************************************)
(* The worker as a whole: fetch(request, env) and the handlers behind its  *)
(* routes.  A response is the record                                       *)
(*   httpStatus, cors (it carries corsHeaders()), kind, json (the body     *)
(*   built by json(), if any), accessToken and file (the members of that   *)
(*   name in the body, if any).                                            *)
(***************************************************************************)
\* Mutant: json() leaves out corsHeaders().
Reply_noCors(j) ==
    [httpStatus |-> j.httpStatus, cors |-> FALSE, kind |-> "json",
     json |-> Some(j), accessToken |-> None, file |-> None]

Reply(j) ==
    [httpStatus |-> j.httpStatus, cors |-> j.cors, kind |-> "json",
     json |-> Some(j), accessToken |-> None, file |-> None]

\* new Response(body, init) built without json().
Plain(kind, httpStatus, cors) ==
    [httpStatus |-> httpStatus, cors |-> cors, kind |-> kind,
     json |-> None, accessToken |-> None, file |-> None]

\* What a handler did: the response and the calls it made on the way.
Handling(route, resp, tokenCalls, upstreamCalls) ==
    [route |-> route, resp |-> resp, tokenCalls |-> tokenCalls,
     upstreamCalls |-> upstreamCalls]

(***************************************************************************)
(* The body of a POST to /api/upload-init as it arrives: text that is not  *)
(* JSON, the JSON literal null, or a JSON object in which filename, size   *)
(* and mimeType may each be absent.                                        *)
(***************************************************************************)
RawInitBodies ==
    [json     : {"object"},
     filename : {None, Some(""), Some("a.bin")},
     mimeType : {None, Some("text/plain")},
     size     : {None, Some(0), Some(MaxFileSize)}]
    \cup [json : {"invalid", "null"}, filename : {None}, mimeType : {None},
          size : {None}]

\* await request.json() and the destructuring of its result: an absent
\* member is undefined, which the handler's tests treat like "" and 0.
ReadInitBody(raw) ==
    IF raw.json = "invalid"
        THEN <<"throw", "Unexpected end of JSON input">>
    ELSE IF raw.json = "null"
        THEN <<"throw", "Cannot destructure property 'filename' of 'body'"
                            \o " as it is null.">>
    ELSE <<"ok", [kind     |-> "init",
                  filename |-> IF IsSome(raw.filename)
                                   THEN Get(raw.filename) ELSE "",
                  mimeType |-> OrElse(IF IsSome(raw.mimeType)
                                          THEN Get(raw.mimeType) ELSE "",
                                      "application/octet-stream"),
                  size     |-> IF IsSome(raw.size)
                                   THEN Get(raw.size) ELSE 0]>>

\* handleUploadInit on the request as it arrives.
handleUploadInitRequest(raw, tok, open) ==
    LET b == ReadInitBody(raw) IN
    IF b[1] = "throw"
        THEN Handling("upload-init",
                      Reply(ErrorResponse(ErrMessage(b[2]), 500)), 0, 0)
        ELSE LET r == handleUploadInit(b[2], tok, open)
             IN  Handling("upload-init", Reply(r.resp), r.tokenCalls,
                          r.openCalls)

\* Mutant: the chunk relay asks for a token before its PUT.
handleChunkUploadRequest_withToken(req, up) ==
    LET r == handleChunkUpload(req, up)
    IN  Handling("upload-chunk", Reply(r.resp), Len(r.puts), Len(r.puts))

\* handleChunkUpload as a route of the worker.
handleChunkUploadRequest(req, up) ==
    LET r == handleChunkUpload(req, up)
    IN  Handling("upload-chunk", Reply(r.resp), 0, Len(r.puts))

(***************************************************************************)
(* The upstream's answers to the metadata lookup, and getFileDetails:      *)
(* <<"ok", file>> (file is None for a JSON null) or <<"throw", message>>.  *)
(***************************************************************************)
DetailsAnswers ==
    [ok : {TRUE}, status : {200}, body : Bodies]
        \cup [ok : {FALSE}, status : {404, 500}, body : Bodies]

getFileDetails(det) ==
    IF ~det.ok
        THEN <<"throw", "Failed to get file details ("
                            \o ToString(det.status) \o "): "
                            \o safeText(det.body)>>
    ELSE LET parsed == JsonParse(det.body) IN
         IF parsed[1] = "object" THEN <<"ok", Some(parsed[2])>>
         ELSE IF parsed[1] = "null" THEN <<"ok", None>>
         ELSE <<"throw", "Unexpected end of JSON input">>

\* The /api/file-details branch of fetch; fileId is the query parameter.
handleFileDetails(id, tok, det) ==
    IF ~IsSome(id) \/ Get(id) = ""
        THEN Handling("file-details",
                      Reply(ErrorResponse("File ID is required", 400)), 0, 0)
    ELSE LET t == getAccessToken(tok) IN
         IF t[1] = "throw"
             THEN Handling("file-details",
                           Reply(ErrorResponse(ErrMessage(t[2]), 500)), 1, 0)
         ELSE LET d == getFileDetails(det) IN
              IF d[1] = "throw"
                  THEN Handling("file-details",
                                Reply(ErrorResponse(ErrMessage(d[2]), 500)),
                                1, 1)
                  ELSE Handling("file-details",
                                [Reply(JsonResponse(200, TRUE, "", None, "",
                                                    None))
                                     EXCEPT !.file = d[2]],
                                1, 1)

(***************************************************************************)
(* handleGoogleDriveProxy for a path under /api/proxy/.  getAccessToken is *)
(* awaited outside the try block: when it throws, the exception leaves     *)
(* fetch() and the runtime answers in the worker's place (kind             *)
(* "uncaught"), with none of the worker's headers.                         *)
(***************************************************************************)
ProxyAnswers ==
    [thrown : {FALSE}, status : {200, 404, 500}, message : {""}]
        \cup {[thrown |-> TRUE, status |-> 0,
               message |-> "The operation was aborted due to timeout"]}

handleGoogleDriveProxy(method, tok, px) ==
    IF method = "OPTIONS"
        THEN Handling("proxy", Plain("preflight", 200, TRUE), 0, 0)
    ELSE LET t == getAccessToken(tok) IN
         IF t[1] = "throw"
             THEN Handling("proxy", Plain("uncaught", 500, FALSE), 1, 0)
         ELSE IF px.thrown
             THEN Handling("proxy",
                           Reply(ErrorResponse(ErrMessage(px.message), 500)),
                           1, 1)
             ELSE Handling("proxy", Plain("upstream", px.status, TRUE), 1, 1)

(***************************************************************************)
(* The legacy single-upload POST handler at the end of fetch.  A form is   *)
(* the content-length header, whether formData() succeeds, and the "file"  *)
(* entry.                                                                  *)
(***************************************************************************)
LegacyMaxSize == 100 * 1024 * 1024

Forms ==
    [contentLength : {None, Some(MaxFileSize), Some(LegacyMaxSize + 1)},
     parses        : BOOLEAN,
     file          : {None,
                      Some([name |-> "a.bin", type |-> "text/plain",
                            size |-> MaxFileSize]),
                      Some([name |-> "a.bin", type |-> "text/plain",
                            size |-> LegacyMaxSize + 1])}]

legacyUpload(form, tok, open) ==
    IF IsSome(form.contentLength) /\ Get(form.contentLength) > LegacyMaxSize
        THEN Handling("legacy",
                 Reply(ErrorResponse("File too large. Maximum size is 100MB.",
                                     413)), 0, 0)
    ELSE IF ~form.parses
        THEN Handling("legacy",
                 Reply(ErrorResponse("Failed to parse body as FormData.",
                                     500)), 0, 0)
    ELSE IF ~IsSome(form.file)
        THEN Handling("legacy",
                 Reply(ErrorResponse("No file uploaded", 400)), 0, 0)
    ELSE IF Get(form.file).size > LegacyMaxSize
        THEN Handling("legacy",
                 Reply(ErrorResponse("File too large. Maximum size is 100MB.",
                                     413)), 0, 0)
    ELSE LET t == getAccessToken(tok) IN
         IF t[1] = "throw"
             THEN Handling("legacy",
                           Reply(ErrorResponse(ErrMessage(t[2]), 500)), 1, 0)
         ELSE LET s == createResumableSession(open) IN
              IF s[1] = "throw"
                  THEN Handling("legacy",
                           Reply(ErrorResponse(ErrMessage(s[2]), 500)), 1, 1)
                  ELSE Handling("legacy",
                           [Reply(JsonResponse(200, TRUE, "", None, "",
                                               Some(s[2])))
                                EXCEPT !.accessToken = Some(t[2])],
                           1, 1)

(***************************************************************************)
(* fetch(request, env).  A request is its method, its path and the parts   *)
(* the routes read: the JSON body (init), the chunk headers and payload    *)
(* (chunk), the form (form) and the fileId query parameter.  ans holds the *)
(* answers of the credential provider and of the upstream.                 *)
(***************************************************************************)
ProxyPaths == {"/api/proxy/upload/drive/v3/files", "/api/proxy/"}

\* url.pathname.startsWith("/api/proxy/")
IsProxyPath(path) == path \in ProxyPaths

\* The end of fetch, after the route branches: preflight, legacy POST, 405.
fetchTail(request, ans) ==
    IF request.method = "OPTIONS"
        THEN Handling("preflight", Plain("preflight", 200, TRUE), 0, 0)
    ELSE IF request.method = "POST"
        THEN legacyUpload(request.form, ans.tok, ans.open)
    ELSE Handling("none", Reply(ErrorResponse("Method not allowed", 405)),
                  0, 0)

workerFetch(request, ans) ==
    IF request.path = "/api/upload-init" /\ request.method = "POST"
        THEN handleUploadInitRequest(request.init, ans.tok, ans.open)
    ELSE IF request.path = "/api/upload-chunk" /\ request.method = "POST"
        THEN handleChunkUploadRequest(request.chunk, ans.up)
    ELSE IF request.path = "/api/upload" \/ request.method = "POST"
        THEN fetchTail(request, ans)
    ELSE IF request.path = "/api/file-details" /\ request.method = "GET"
        THEN handleFileDetails(request.fileId, ans.tok, ans.det)
    ELSE IF IsProxyPath(request.path)
        THEN handleGoogleDriveProxy(request.method, ans.tok, ans.px)
    ELSE IF request.method = "GET"
        THEN IF request.path = "/"
                 THEN Handling("page", Plain("html", 200, FALSE), 0, 0)
                 ELSE Handling("none", Plain("text", 404, FALSE), 0, 0)
    ELSE fetchTail(request, ans)

(***************************************************************************)
(* The Upload Driver.                                                      *)
(***************************************************************************)
FileNames == {"a.bin"}
FileTypes == {"", "text/plain"}

\* Mutant: the select offers a 200 MB option as well.
ChunkSizeOptions_with200MB ==
    {1048576, 5242880, 10485760, 26214400, 52428800, 104857600, 209715200}

\* The option values of the chunkSize select.
ChunkSizeOptions ==
    {1048576, 5242880, 10485760, 26214400, 52428800, 104857600}

\* chunkSizeSelect.value: an option's value, or "" (None) when the value
\* restored from localStorage matches no option.
SelectValues == {None} \cup {Some(v) : v \in ChunkSizeOptions}

\* getChunkSize(): parseInt(chunkSizeSelect.value) || (10 * 1024 * 1024)
getChunkSize(value) == IF IsSome(value) THEN Get(value) ELSE DefaultChunkSize

\* The (file size, chunk size) pairs of the model: every small pair, the
\* worked example with the default chunk size, and for every value of the
\* select a file one byte longer than a chunk.
SizePairs ==
    ((0 .. MaxFileSize) \X (1 .. MaxChunkSize))
        \cup {<<ExampleTotalSize, DefaultChunkSize>>,
              <<DefaultChunkSize + 1, DefaultChunkSize>>}
        \cup {<<getChunkSize(v) + 1, getChunkSize(v)>> : v \in SelectValues}

\* file.type || 'application/octet-stream'
MimeTypeOf(f) == OrElse(f.type, "application/octet-stream")

\* The body of POST /api/upload-init.
InitRequest(f) ==
    [kind |-> "init", filename |-> f.name, mimeType |-> MimeTypeOf(f),
     size |-> f.size]

\* Mutant: the slice end is not clamped to the file size.
ChunkRequest_noClamp(f, cs, n, url, i) ==
    LET start == i * cs
        end   == start + cs
    IN  [kind        |-> "chunk",
         index       |-> i,
         sessionUrl  |-> url,
         chunkStart  |-> Some(start),
         chunkEnd    |-> Some(end - 1),
         totalSize   |-> Some(f.size),
         isLastChunk |-> Some(BoolToString(i = n - 1)),
         len         |-> end - start]

\* Mutant: the last-chunk test is off by one (i === totalChunks).
ChunkRequest_lastOffByOne(f, cs, n, url, i) ==
    LET start == i * cs
        end   == Min(start + cs, f.size)
    IN  [kind        |-> "chunk",
         index       |-> i,
         sessionUrl  |-> url,
         chunkStart  |-> Some(start),
         chunkEnd    |-> Some(end - 1),
         totalSize   |-> Some(f.size),
         isLastChunk |-> Some(BoolToString(i = n)),
         len         |-> end - start]

\* Mutant: every chunk is addressed to one fixed session.
ChunkRequest_fixedUrl(f, cs, n, url, i) ==
    LET start == i * cs
        end   == Min(start + cs, f.size)
    IN  [kind        |-> "chunk",
         index       |-> i,
         sessionUrl  |-> Some(SessionUrl),
         chunkStart  |-> Some(start),
         chunkEnd    |-> Some(end - 1),
         totalSize   |-> Some(f.size),
         isLastChunk |-> Some(BoolToString(i = n - 1)),
         len         |-> end - start]

(***************************************************************************)
(* The request of loop iteration i of uploadFileInChunks: the slice        *)
(* [start, end) of the file and the headers that declare it.               *)
(***************************************************************************)
ChunkRequest(f, cs, n, url, i) ==
    LET start == i * cs
        end   == Min(start + cs, f.size)
    IN  [kind        |-> "chunk",
         index       |-> i,
         sessionUrl  |-> url,
         chunkStart  |-> Some(start),
         chunkEnd    |-> Some(end - 1),
         totalSize   |-> Some(f.size),
         isLastChunk |-> Some(BoolToString(i = n - 1)),
         len         |-> end - start]

\* Mutant: the fetches are started without awaiting each one.
LoopSends_noAwait(i, n) == i .. (n - 1)

\* The iterations whose fetch is started before the loop suspends at its
\* await, entering iteration i of n: the loop awaits every fetch.
LoopSends(i, n) == IF i < n THEN {i} ELSE {}

\* Mutant: the fallback record carries no id.
FallbackFile_noId(f) ==
    [name |-> f.name, size |-> f.size, mimeType |-> MimeTypeOf(f),
     id |-> ""]

\* The record shown when the last response carried no fileData.
FallbackFile(f) ==
    [name |-> f.name, size |-> f.size, mimeType |-> MimeTypeOf(f),
     id |-> "Upload completed successfully"]

(***************************************************************************)
(* getFileDetailsWithRetry(fileId, fallbackFilename, maxRetries = 5).      *)
(***************************************************************************)
maxRetries == 5

\* Mutant: the delay before attempt k + 1 is 2^(k-1) seconds.
BackoffMs_fromOneSecond(k) == 2 ^ (k - 1) * 1000

\* Math.pow(2, attempt) * 1000
BackoffMs(k) == 2 ^ k * 1000

\* Mutant: one more attempt is allowed.
MoreAttempts_oneMore(k) == k < maxRetries + 1

\* attempt < maxRetries: another iteration of the loop follows this one.
MoreAttempts(k) == k < maxRetries

(***************************************************************************)
(* What one iteration's fetch and response.json() give the helper: a throw *)
(* (the fetch rejects, or the body is not JSON), or the body of the        *)
(* worker's answer to GET /api/file-details?fileId=id.                     *)
(***************************************************************************)
LookupDetails ==
    {det \in DetailsAnswers :
        /\ det.body.readable
        /\ det.ok => det.body.text \in {DriveRecordJson, "null"}
        /\ ~det.ok => det.status = 404 /\ det.body.text = ""}

LookupOutcomes(id) ==
    {[thrown |-> TRUE, resp |-> Plain("none", 0, FALSE)]}
        \cup {[thrown |-> FALSE,
               resp |-> handleFileDetails(Some(id), tok, det).resp] :
                  tok \in TokenAnswers, det \in LookupDetails}

\* data.ok && data.file
LookupSucceeded(o) ==
    /\ ~o.thrown
    /\ IsSome(o.resp.json)
    /\ Get(o.resp.json).ok
    /\ IsSome(o.resp.file)

\* The fallbackFile of the helper; its size, null, is written -1.
RetryFallbackFile(id, name) ==
    [name |-> name, size |-> -1, mimeType |-> "Unknown",
     id |-> OrElse(id, "File ID retrieval failed")]

\* Mutant: the chunk number in the message is zero-indexed.
ChunkFailedMessage_zeroIndexed(i, resp, statusText) ==
    "Chunk " \o ToString(i) \o " upload failed: "
        \o OrElse(resp.error, statusText)

ChunkFailedMessage(i, resp, statusText) ==
    "Chunk " \o ToString(i + 1) \o " upload failed: "
        \o OrElse(resp.error, statusText)

\* showError(`Upload failed: ${error.message}`) of the submit handler
ShownError(message) ==
    [kind |-> "error", text |-> "Upload failed: " \o message, file |-> None]

ShownFile(rec) == [kind |-> "success", text |-> "", file |-> Some(rec)]

StatusHidden == [kind |-> "hidden", text |-> "", file |-> None]

\* showLoading(): submitBtn.disabled = true
showLoading == TRUE

\* Mutant: hideLoading leaves the submit button disabled.
hideLoading_keepsDisabled == TRUE

\* hideLoading(): submitBtn.disabled = false
hideLoading == FALSE

\* Mutant: the Driver does not look at the response status.
ChunkResponseOk_ignored(resp) == TRUE

\* Mutant: the byte count is assigned, not accumulated.
Accumulate_assign(uploaded, chunkLen) == chunkLen

\* uploadedBytes += chunk.size
Accumulate(uploaded, chunkLen) == uploaded + chunkLen

\* Mutant: the percentage is truncated instead of rounded.
Percentage_floor(uploaded, size) == (10 * ((10 * uploaded) \div size))
    + ((10 * ((10 * uploaded) % size)) \div size)

\* Math.round((uploadedBytes / file.size) * 100)
Percentage(uploaded, size) == RoundPct(uploaded, size)

\* Mutant: the Driver goes on only after a response that says complete.
ChunkResponseOk_completeOnly(resp) == resp.httpOk /\ resp.status = "complete"

\* if (!chunkResponse.ok): the Driver's test of a chunk response.
ChunkResponseOk(resp) == resp.httpOk

\* The statusText of the worker's responses, which json() leaves unset.
StatusText == ""

VARIABLES
    pc,             \* position of the Driver
    file,           \* the File of the transfer
    CHUNK_SIZE,     \* getChunkSize() at the start of the transfer
    totalChunks,
    sessionData,    \* the body of the session-open response
    chunkIndex,
    uploadedBytes,
    finalFileData,
    percentage,     \* the progress bar
    submitDisabled, \* submitBtn.disabled
    statusMessage,  \* what the status area shows
    reqs,           \* requests on their way to the worker
    resps,          \* responses on their way to the Driver
    sent,           \* history: the chunk requests the Driver has sent
    puts,           \* history: the PUTs the upstream has received
    relayLog,       \* history: per relay call, the index and PUT count
    outcomes,       \* history: the relay status of each chunk received
    lastUp,         \* history: the upstream answer behind the last response
    failedAt,       \* history: the chunk calls that ended in a failure
    calls,          \* history: the worker's outbound calls of the transfer
    lastOpen,       \* history: the upstream's answer to the session open
    relayReq,       \* SpecRelay: the request handled
    relayUp,        \* SpecRelay: the upstream's answer
    relayOut,       \* SpecRelay: the handler's result
    workerReq,      \* SpecWorker: the request handled
    workerOut,      \* SpecWorker: what fetch did with it
    retryPc,        \* SpecRetry: position of getFileDetailsWithRetry
    fileId,         \* its arguments
    fallbackFilename,
    attempt,        \* its loop counter
    waits,          \* history: the delays of its timers, in milliseconds
    lookups,        \* history: the outcome of each of its lookups
    shown,          \* what it passed to showFileDetails
    alertHidden,    \* SpecDialog: alertDialog carries the class 'hidden'
    alertState,     \* the data-state attribute of alertDialog
    dialogs,        \* the showAlertDialog calls: decision and listeners left
    hideTimers,     \* the timers of hideAlertDialog that have not fired
    uploads,        \* the uploadFileInChunks calls that are running
    submits,        \* history: the submit events handled
    tabs,           \* SpecTwo: the transfer of each of two pages
    store,          \* the upstream's open sessions
    alone           \* per page, the same transfer in a world of its own

vars == <<pc, file, CHUNK_SIZE, totalChunks, sessionData, chunkIndex,
          uploadedBytes, finalFileData, percentage, submitDisabled,
          statusMessage, reqs, resps, sent, puts, relayLog, outcomes,
          lastUp, failedAt, calls, lastOpen, relayReq, relayUp, relayOut,
          workerReq, workerOut, retryPc, fileId, fallbackFilename, attempt,
          waits, lookups, shown, alertHidden, alertState, dialogs,
          hideTimers, uploads, submits, tabs, store, alone>>

driverVars == <<pc, file, CHUNK_SIZE, totalChunks, sessionData, chunkIndex,
                uploadedBytes, finalFileData, percentage, submitDisabled,
                statusMessage, reqs, resps, sent, puts, relayLog, outcomes,
                lastUp, failedAt, calls, lastOpen>>

relayVars == <<relayReq, relayUp, relayOut>>

workerVars == <<workerReq, workerOut>>

retryVars == <<retryPc, fileId, fallbackFilename, attempt, waits, lookups,
               shown>>

dialogVars == <<alertHidden, alertState, dialogs, hideTimers, uploads,
                submits>>

twoVars == <<tabs, store, alone>>

\* What the dialog path of the submit handler leaves alone: everything of
\* the transfer but the submit button.
transferVars == <<pc, file, CHUNK_SIZE, totalChunks, sessionData, chunkIndex,
                  uploadedBytes, finalFileData, percentage, statusMessage,
                  reqs, resps, sent, puts, relayLog, outcomes, lastUp,
                  failedAt, calls, lastOpen>>

NoFile == [name |-> "", type |-> "", size |-> 0]

\* No upstream answer: the request was answered without a PUT.
NoAnswer ==
    [thrown |-> FALSE, status |-> 0,
     body |-> [readable |-> FALSE, text |-> ""], message |-> ""]

(***************************************************************************)
(* Two pages (browser tabs) that use the same worker.  Each page has its   *)
(* own Driver; the Driver awaits every call, so a page has at most one     *)
(* request or response in flight (out, inb).  The worker is the handlers   *)
(* above; what the pages share beyond it is the upstream's store of open   *)
(* sessions.                                                               *)
(***************************************************************************)
Tabs == {1, 2}

SessionUrls == {SessionUrl, OtherSessionUrl}

IdleTab ==
    [pc |-> "Idle", file |-> NoFile, CHUNK_SIZE |-> DefaultChunkSize,
     totalChunks |-> 0, sessionData |-> None, chunkIndex |-> 0,
     uploadedBytes |-> 0, finalFileData |-> None, percentage |-> 0,
     submitDisabled |-> FALSE, statusMessage |-> StatusHidden,
     out |-> None, inb |-> None]

\* The submit handler up to the first await of uploadFileInChunks.
TabSubmit(s, f, cs) ==
    [IdleTab EXCEPT !.pc = "SessionPending", !.file = f, !.CHUNK_SIZE = cs,
                    !.totalChunks = Ceil(f.size, cs),
                    !.submitDisabled = showLoading,
                    !.out = Some(InitRequest(f))]

\* uploadFileInChunks throws: showError and hideLoading in the catch.
TabAbort(s, message) ==
    [s EXCEPT !.pc = "Aborted", !.statusMessage = ShownError(message),
              !.submitDisabled = hideLoading, !.out = None, !.inb = None]

\* The head of iteration i of the chunk loop.
TabIterate(s, i, url, ffd) ==
    IF i < s.totalChunks
    THEN [s EXCEPT !.pc = "ChunkInFlight", !.chunkIndex = i,
                   !.out = Some(ChunkRequest(s.file, s.CHUNK_SIZE,
                                             s.totalChunks, url, i)),
                   !.inb = None]
    ELSE [s EXCEPT !.pc = "Complete", !.chunkIndex = i,
                   !.statusMessage =
                       ShownFile(IF IsSome(ffd) THEN Get(ffd)
                                                ELSE FallbackFile(s.file)),
                   !.submitDisabled = hideLoading,
                   !.out = None, !.inb = None]

\* uploadFileInChunks resumes with the session-open response.
TabOnInit(s, resp) ==
    IF ~resp.httpOk \/ ~resp.ok
    THEN TabAbort(s, OrElse(resp.error,
                            "Failed to initialize upload session"))
    ELSE TabIterate([s EXCEPT !.sessionData = Some(resp)], 0,
                    resp.sessionUrl, None)

\* uploadFileInChunks resumes with the response to chunk chunkIndex.
TabOnChunk(s, resp) ==
    IF ~ChunkResponseOk(resp)
    THEN TabAbort(s, ChunkFailedMessage(s.chunkIndex, resp, StatusText))
    ELSE LET url == Get(s.sessionData).sessionUrl
             chunk == ChunkRequest(s.file, s.CHUNK_SIZE, s.totalChunks,
                                   url, s.chunkIndex)
             isLastChunk == Get(chunk.isLastChunk) = "true"
             ffd == IF isLastChunk /\ IsSome(resp.fileData)
                        THEN resp.fileData
                        ELSE s.finalFileData
             uploaded == Accumulate(s.uploadedBytes, chunk.len)
         IN  TabIterate([s EXCEPT !.uploadedBytes = uploaded,
                                  !.percentage =
                                      Percentage(uploaded, s.file.size),
                                  !.finalFileData = ffd],
                        s.chunkIndex + 1, url, ffd)

(***************************************************************************)
(* The upstream's sessions: per handle it has issued, the length announced *)
(* at the open and the offset of the next byte it expects.  A PUT whose    *)
(* Content-Range continues the session is stored and answered 308, or 200  *)
(* with the file's metadata when it completes the file; any other PUT is   *)
(* refused.  A fault is an answer the upstream gives instead, storing      *)
(* nothing.                                                                *)
(***************************************************************************)
NoSessions == [u \in SessionUrls |-> None]

Issued(st) == {u \in SessionUrls : IsSome(st[u])}

UpstreamAnswer(status, text) ==
    [thrown |-> FALSE, status |-> status,
     body |-> [readable |-> TRUE, text |-> text], message |-> ""]

Faults ==
    {None,
     Some([thrown |-> FALSE, status |-> 500,
           body |-> [readable |-> FALSE, text |-> ""], message |-> ""]),
     Some([thrown |-> TRUE, status |-> 0,
           body |-> [readable |-> FALSE, text |-> ""],
           message |-> "fetch failed"])}

OpenSession(st, open, size) ==
    IF open.ok /\ IsSome(open.location)
    THEN [st EXCEPT ![Get(open.location)] =
                        Some([next |-> 0, total |-> size])]
    ELSE st

UpstreamPut(st, put, fault) ==
    IF IsSome(fault) THEN [answer |-> Get(fault), store |-> st]
    ELSE IF put.url \notin Issued(st)
        THEN [answer |-> UpstreamAnswer(404, "Not Found"), store |-> st]
    ELSE LET session == Get(st[put.url])
             last == session.next + put.contentLength
         IN  IF put.contentRange
                    # ContentRange(session.next, last - 1, session.total)
             THEN [answer |-> UpstreamAnswer(400, ""), store |-> st]
             ELSE [answer |-> IF last = session.total
                                  THEN UpstreamAnswer(200, DriveRecordJson)
                                  ELSE UpstreamAnswer(308, ""),
                   store |-> [st EXCEPT ![put.url] =
                                 Some([session EXCEPT !.next = last])]]

(***************************************************************************)
(* A world is a page together with the upstream store it talks to.  The    *)
(* worker handles the page's request in flight; the page's Driver takes    *)
(* the response in flight.                                                 *)
(***************************************************************************)
World(s, st) == [tab |-> s, store |-> st]

WorldRelayInit(w, tok, open) ==
    LET req == Get(w.tab.out)
        r == handleUploadInit(req, tok, open)
    IN  World([w.tab EXCEPT !.out = None, !.inb = Some(r.resp)],
              IF r.openCalls > 0 THEN OpenSession(w.store, open, req.size)
                                 ELSE w.store)

WorldRelayChunk(w, fault) ==
    LET req == Get(w.tab.out)
        relayed == handleChunkUpload(req, NoAnswer).puts
    IN  IF relayed = <<>>
        THEN World([w.tab EXCEPT !.out = None,
                        !.inb = Some(handleChunkUpload(req, NoAnswer).resp)],
                   w.store)
        ELSE LET u == UpstreamPut(w.store, relayed[1], fault) IN
             World([w.tab EXCEPT !.out = None,
                        !.inb = Some(handleChunkUpload(req, u.answer).resp)],
                   u.store)

WorldRelay(w, tok, open, fault) ==
    IF ~IsSome(w.tab.out) THEN w
    ELSE IF Get(w.tab.out).kind = "init" THEN WorldRelayInit(w, tok, open)
    ELSE WorldRelayChunk(w, fault)

WorldDeliver(w) ==
    IF ~IsSome(w.tab.inb) THEN w
    ELSE IF w.tab.pc = "SessionPending"
        THEN [w EXCEPT !.tab = TabOnInit(w.tab, Get(w.tab.inb))]
    ELSE [w EXCEPT !.tab = TabOnChunk(w.tab, Get(w.tab.inb))]

Init ==
    /\ pc = "Idle"
    /\ file = NoFile
    /\ CHUNK_SIZE = DefaultChunkSize
    /\ totalChunks = 0
    /\ sessionData = None
    /\ chunkIndex = 0
    /\ uploadedBytes = 0
    /\ finalFileData = None
    /\ percentage = 0
    /\ submitDisabled = FALSE
    /\ statusMessage = StatusHidden
    /\ reqs = {}
    /\ resps = {}
    /\ sent = <<>>
    /\ puts = <<>>
    /\ relayLog = <<>>
    /\ outcomes = <<>>
    /\ lastUp = None
    /\ failedAt = {}
    /\ calls = <<>>
    /\ lastOpen = None
    /\ relayReq = None
    /\ relayUp = None
    /\ relayOut = None
    /\ workerReq = None
    /\ workerOut = None
    /\ retryPc = "Idle"
    /\ fileId = ""
    /\ fallbackFilename = ""
    /\ attempt = 0
    /\ waits = <<>>
    /\ lookups = <<>>
    /\ shown = StatusHidden
    /\ alertHidden = TRUE
    /\ alertState = "none"
    /\ dialogs = <<>>
    /\ hideTimers = 0
    /\ uploads = 0
    /\ submits = 0
    /\ tabs = [t \in Tabs |-> IdleTab]
    /\ store = NoSessions
    /\ alone = [t \in Tabs |-> World(IdleTab, NoSessions)]

(***************************************************************************)
(* Envelopes: a response on its way to the Driver, with the call it        *)
(* answers and (history) the upstream answer it was made from.             *)
(***************************************************************************)
Envelope(kind, index, resp, up) ==
    [kind |-> kind, index |-> index, resp |-> resp, up |-> up]

\* The requests that entering iteration i puts in flight, in index order.
NewRequests(i, url) ==
    LET k == Cardinality(LoopSends(i, totalChunks))
    IN  [j \in 1 .. k |->
            ChunkRequest(file, CHUNK_SIZE, totalChunks, url, i + j - 1)]

SeqRange(s) == {s[j] : j \in 1 .. Len(s)}

\* k copies of x, in a sequence.
Repeat(x, k) == [j \in 1 .. k |-> x]

(***************************************************************************)
(* The loop of uploadFileInChunks at the head of iteration i: send chunk i *)
(* and suspend, or leave the loop, show the file and hideLoading().        *)
(***************************************************************************)
Iterate(i, url, ffd) ==
    IF i < totalChunks
    THEN /\ pc' = "ChunkInFlight"
         /\ chunkIndex' = i
         /\ reqs' = reqs \cup SeqRange(NewRequests(i, url))
         /\ sent' = sent \o NewRequests(i, url)
         /\ UNCHANGED <<statusMessage, submitDisabled>>
    ELSE /\ pc' = "Complete"
         /\ chunkIndex' = i
         /\ statusMessage' =
                ShownFile(IF IsSome(ffd) THEN Get(ffd)
                                         ELSE FallbackFile(file))
         /\ submitDisabled' = hideLoading
         /\ UNCHANGED <<reqs, sent>>

(***************************************************************************)
(* The submit handler up to the first await of uploadFileInChunks, for a   *)
(* selected file below the large-file warning threshold: showLoading, then *)
(* the session-open request.                                               *)
(***************************************************************************)
Submit(f, cs) ==
    /\ pc \in {"Idle", "Complete", "Aborted"}
    /\ ~submitDisabled
    /\ file' = f
    /\ CHUNK_SIZE' = cs
    /\ totalChunks' = Ceil(f.size, cs)
    /\ submitDisabled' = showLoading
    /\ statusMessage' = StatusHidden
    /\ percentage' = 0
    /\ reqs' = {InitRequest(f)}
    /\ resps' = {}
    /\ pc' = "SessionPending"
    /\ sessionData' = None
    /\ chunkIndex' = 0
    /\ uploadedBytes' = 0
    /\ finalFileData' = None
    /\ sent' = <<>>
    /\ puts' = <<>>
    /\ relayLog' = <<>>
    /\ outcomes' = <<>>
    /\ lastUp' = None
    /\ failedAt' = {}
    /\ calls' = <<>>
    /\ lastOpen' = None
    /\ UNCHANGED <<relayVars, workerVars, retryVars, dialogVars, twoVars>>

\* The worker handles the session-open request.
RelayInit ==
    \E req \in reqs, tok \in TokenAnswers, open \in OpenAnswers :
        /\ req.kind = "init"
        /\ reqs' = reqs \ {req}
        /\ LET r == handleUploadInit(req, tok, open) IN
            /\ resps' = resps \cup {Envelope("init", 0, r.resp, NoAnswer)}
            /\ calls' = calls \o Repeat("token", r.tokenCalls)
                               \o Repeat("open", r.openCalls)
            /\ lastOpen' = IF r.openCalls > 0 THEN Some(open) ELSE lastOpen
        /\ UNCHANGED <<pc, file, CHUNK_SIZE, totalChunks, sessionData,
                       chunkIndex, uploadedBytes, finalFileData, percentage,
                       submitDisabled, statusMessage, sent, puts, relayLog,
                       outcomes, lastUp, failedAt>>
        /\ UNCHANGED <<relayVars, workerVars, retryVars, dialogVars, twoVars>>

\* The worker handles one chunk request; the upstream answers its PUT.
RelayChunk ==
    \E req \in reqs, up \in ChunkAnswers :
        /\ req.kind = "chunk"
        /\ LET r == handleChunkUpload(req, up) IN
            /\ reqs' = reqs \ {req}
            /\ resps' = resps \cup
                   {Envelope("chunk", req.index, r.resp, up)}
            /\ puts' = puts \o r.puts
            /\ relayLog' = Append(relayLog, [index |-> req.index,
                                             puts  |-> Len(r.puts)])
            /\ calls' = calls \o Repeat("put", Len(r.puts))
        /\ UNCHANGED <<pc, file, CHUNK_SIZE, totalChunks, sessionData,
                       chunkIndex, uploadedBytes, finalFileData, percentage,
                       submitDisabled, statusMessage, sent, outcomes,
                       lastUp, failedAt, lastOpen>>
        /\ UNCHANGED <<relayVars, workerVars, retryVars, dialogVars, twoVars>>

(***************************************************************************)
(* uploadFileInChunks resumes with the session-open response: throw (the   *)
(* submit handler shows the error and calls hideLoading), or enter the     *)
(* loop.                                                                   *)
(***************************************************************************)
DriverInitResponse ==
    \E env \in resps :
        /\ pc = "SessionPending"
        /\ env.kind = "init"
        /\ resps' = resps \ {env}
        /\ IF ~env.resp.httpOk \/ ~env.resp.ok
           THEN /\ statusMessage' =
                       ShownError(OrElse(env.resp.error,
                                  "Failed to initialize upload session"))
                /\ submitDisabled' = hideLoading
                /\ pc' = "Aborted"
                /\ UNCHANGED <<sessionData, chunkIndex, reqs, sent>>
           ELSE /\ sessionData' = Some(env.resp)
                /\ Iterate(0, env.resp.sessionUrl, None)
        /\ uploadedBytes' = 0
        /\ finalFileData' = None
        /\ percentage' = 0
        /\ UNCHANGED <<file, CHUNK_SIZE, totalChunks, puts, relayLog,
                       outcomes, lastUp, failedAt, calls, lastOpen>>
        /\ UNCHANGED <<relayVars, workerVars, retryVars, dialogVars, twoVars>>

(***************************************************************************)
(* uploadFileInChunks resumes with the response to chunk chunkIndex: throw *)
(* on a non-ok response, else account the bytes, read fileData from the    *)
(* last chunk's response, and go to the next iteration.                    *)
(***************************************************************************)
DriverChunkResponse ==
    \E env \in resps :
        /\ pc = "ChunkInFlight"
        /\ env.kind = "chunk"
        /\ env.index = chunkIndex
        /\ resps' = resps \ {env}
        /\ lastUp' = Some(env.up)
        /\ failedAt' = IF env.resp.httpOk THEN failedAt
                                          ELSE failedAt \cup {chunkIndex}
        /\ IF ~ChunkResponseOk(env.resp)
           THEN /\ statusMessage' =
                       ShownError(ChunkFailedMessage(chunkIndex, env.resp,
                                                     StatusText))
                /\ submitDisabled' = hideLoading
                /\ pc' = "Aborted"
                /\ outcomes' = Append(outcomes, "failed")
                /\ UNCHANGED <<chunkIndex, uploadedBytes, finalFileData,
                               percentage, reqs, sent>>
           ELSE LET chunk == ChunkRequest(file, CHUNK_SIZE, totalChunks,
                                          Get(sessionData).sessionUrl,
                                          chunkIndex)
                    isLastChunk == Get(chunk.isLastChunk) = "true"
                    ffd == IF isLastChunk /\ IsSome(env.resp.fileData)
                               THEN env.resp.fileData
                               ELSE finalFileData
                IN  /\ uploadedBytes' = Accumulate(uploadedBytes, chunk.len)
                    /\ percentage' =
                           Percentage(Accumulate(uploadedBytes, chunk.len),
                                      file.size)
                    /\ finalFileData' = ffd
                    /\ outcomes' = Append(outcomes, env.resp.status)
                    /\ Iterate(chunkIndex + 1,
                               Get(sessionData).sessionUrl, ffd)
        /\ UNCHANGED <<file, CHUNK_SIZE, totalChunks, sessionData, puts,
                       relayLog, calls, lastOpen>>
        /\ UNCHANGED <<relayVars, workerVars, retryVars, dialogVars, twoVars>>

(***************************************************************************)
(* The awaited fetch of the Driver rejects (network failure): the call in  *)
(* flight is lost, before or after the worker handled it, and the error    *)
(* reaches the submit handler's catch.                                     *)
(***************************************************************************)
DriverFetchThrows ==
    /\ pc \in {"SessionPending", "ChunkInFlight"}
    /\ reqs \cup resps # {}
    /\ reqs' = {}
    /\ resps' = {}
    /\ statusMessage' = ShownError("Failed to fetch")
    /\ submitDisabled' = hideLoading
    /\ pc' = "Aborted"
    /\ failedAt' = IF pc = "ChunkInFlight" THEN failedAt \cup {chunkIndex}
                                           ELSE failedAt
    /\ UNCHANGED <<file, CHUNK_SIZE, totalChunks, sessionData, chunkIndex,
                   uploadedBytes, finalFileData, percentage, sent, puts,
                   relayLog, outcomes, lastUp, calls, lastOpen>>
    /\ UNCHANGED <<relayVars, workerVars, retryVars, dialogVars, twoVars>>

Files(size) == [name : FileNames, type : FileTypes, size : {size}]

Next ==
    \/ \E p \in SizePairs : \E f \in Files(p[1]) : Submit(f, p[2])
    \/ RelayInit
    \/ RelayChunk
    \/ DriverInitResponse
    \/ DriverChunkResponse
    \/ DriverFetchThrows

Spec == Init /\ [][Next]_vars

\* The network steps: a request is handled, a response is delivered, or the
\* Driver's fetch rejects.
NetworkStep ==
    \/ RelayInit
    \/ RelayChunk
    \/ DriverInitResponse
    \/ DriverChunkResponse
    \/ DriverFetchThrows

\* Every network call returns or fails.
SpecLive == Init /\ [][Next]_vars /\ WF_vars(NetworkStep)

(***************************************************************************)
(* The chunk relay on its own: any client may post any chunk-upload        *)
(* request to /api/upload-chunk.                                           *)
(***************************************************************************)
RawLengths ==
    {0, 1, MAX_CHUNK_SIZE - 1, MAX_CHUNK_SIZE, MAX_CHUNK_SIZE + 1,
     2 * MAX_CHUNK_SIZE}

RawChunkRequests ==
    [kind        : {"chunk"},
     index       : {0},
     sessionUrl  : {None, Some(""), Some(SessionUrl)},
     chunkStart  : {None, Some(MaxChunkSize)},
     chunkEnd    : {None, Some(MaxChunkSize - 1)},
     totalSize   : {None, Some(MaxFileSize)},
     isLastChunk : {None, Some("true")},
     len         : RawLengths]

RelayHandle ==
    \E req \in RawChunkRequests, up \in ChunkAnswers :
        /\ relayReq = None
        /\ relayReq' = Some(req)
        /\ relayUp' = Some(up)
        /\ relayOut' = Some(handleChunkUpload(req, up))
        /\ UNCHANGED <<driverVars, workerVars, retryVars, dialogVars, twoVars>>

NextRelay == RelayHandle

SpecRelay == Init /\ [][NextRelay]_vars

(***************************************************************************)
(* The worker on its own: any client may send any request to any path.     *)
(* One request is handled; the answers of the credential provider and of   *)
(* the upstream vary for the routes that call them.                        *)
(***************************************************************************)
Methods == {"GET", "POST", "OPTIONS", "PUT"}

OtherPaths == {"/", "/api/upload", "/favicon.ico"}

DefaultForm == [contentLength |-> None, parses |-> TRUE, file |-> None]

Request(method, path, init, chunk, form, id) ==
    [method |-> method, path |-> path, init |-> init, chunk |-> chunk,
     form |-> form, fileId |-> id]

Answers(tok, open, up, det, px) ==
    [tok |-> tok, open |-> open, up |-> up, det |-> det, px |-> px]

\* The parts of a request and the answers that a route does not read.
NoInit == [json |-> "invalid", filename |-> None, mimeType |-> None,
           size |-> None]
NoChunk == [kind |-> "chunk", index |-> 0, sessionUrl |-> None,
            chunkStart |-> None, chunkEnd |-> None, totalSize |-> None,
            isLastChunk |-> None, len |-> 0]
NoDetails == [ok |-> FALSE, status |-> 500,
              body |-> [readable |-> FALSE, text |-> ""]]
NoProxy == [thrown |-> TRUE, status |-> 0, message |-> ""]

WorkerHandle(request, ans) ==
    /\ workerReq = None
    /\ workerReq' = Some(request)
    /\ workerOut' = Some(workerFetch(request, ans))
    /\ UNCHANGED <<driverVars, relayVars, retryVars, dialogVars, twoVars>>

WorkerInitRoute ==
    \E m \in Methods, b \in RawInitBodies, tok \in TokenAnswers,
       open \in OpenAnswers :
        WorkerHandle(Request(m, "/api/upload-init", b, NoChunk, DefaultForm,
                             None),
                     Answers(tok, open, NoAnswer, NoDetails, NoProxy))

WorkerChunkRoute ==
    \E m \in Methods, c \in RawChunkRequests, up \in ChunkAnswers :
        WorkerHandle(Request(m, "/api/upload-chunk", NoInit, c, DefaultForm,
                             None),
                     Answers(CHOOSE t \in TokenAnswers : t.ok,
                             CHOOSE o \in OpenAnswers : IsSome(o.location),
                             up, NoDetails, NoProxy))

WorkerDetailsRoute ==
    \E m \in Methods, id \in {None, Some(""), Some(DriveRecord.id)},
       tok \in TokenAnswers, open \in OpenAnswers, det \in DetailsAnswers :
        WorkerHandle(Request(m, "/api/file-details", NoInit, NoChunk,
                             DefaultForm, id),
                     Answers(tok, open, NoAnswer, det, NoProxy))

WorkerProxyRoute ==
    \E m \in Methods, p \in ProxyPaths, tok \in TokenAnswers,
       open \in OpenAnswers, px \in ProxyAnswers :
        WorkerHandle(Request(m, p, NoInit, NoChunk, DefaultForm, None),
                     Answers(tok, open, NoAnswer, NoDetails, px))

WorkerOtherRoute ==
    \E m \in Methods, p \in OtherPaths, form \in Forms,
       tok \in TokenAnswers, open \in OpenAnswers :
        WorkerHandle(Request(m, p, NoInit, NoChunk, form, None),
                     Answers(tok, open, NoAnswer, NoDetails, NoProxy))

NextWorker ==
    \/ WorkerInitRoute
    \/ WorkerChunkRoute
    \/ WorkerDetailsRoute
    \/ WorkerProxyRoute
    \/ WorkerOtherRoute

SpecWorker == Init /\ [][NextWorker]_vars

(***************************************************************************)
(* The metadata-lookup retry helper on its own, called once with the id of *)
(* an uploaded file and a fallback filename, as the legacy page calls it.  *)
(***************************************************************************)
RetryFilenames == {"a.bin", "upload.bin"}

RetryCall ==
    \E name \in RetryFilenames :
        /\ retryPc = "Idle"
        /\ retryPc' = "Fetching"
        /\ fileId' = DriveRecord.id
        /\ fallbackFilename' = name
        /\ attempt' = 1
        /\ UNCHANGED <<waits, lookups, shown>>
        /\ UNCHANGED <<driverVars, relayVars, workerVars, dialogVars, twoVars>>

\* The fetch of iteration `attempt` settles: show the file and return, or
\* start the timer, or (last iteration) leave the loop with the fallback.
RetryLookup ==
    \E o \in LookupOutcomes(fileId) :
        /\ retryPc = "Fetching"
        /\ lookups' = Append(lookups, o)
        /\ IF LookupSucceeded(o)
           THEN /\ shown' = ShownFile(Get(o.resp.file))
                /\ retryPc' = "Done"
                /\ UNCHANGED waits
           ELSE IF MoreAttempts(attempt)
           THEN /\ waits' = Append(waits, BackoffMs(attempt))
                /\ retryPc' = "Waiting"
                /\ UNCHANGED shown
           ELSE /\ shown' = ShownFile(RetryFallbackFile(fileId,
                                                        fallbackFilename))
                /\ retryPc' = "Done"
                /\ UNCHANGED waits
        /\ UNCHANGED <<fileId, fallbackFilename, attempt>>
        /\ UNCHANGED <<driverVars, relayVars, workerVars, dialogVars, twoVars>>

\* The timer fires: attempt++ and the next iteration's fetch starts.
RetryTimer ==
    /\ retryPc = "Waiting"
    /\ attempt' = attempt + 1
    /\ retryPc' = "Fetching"
    /\ UNCHANGED <<fileId, fallbackFilename, waits, lookups, shown>>
    /\ UNCHANGED <<driverVars, relayVars, workerVars, dialogVars, twoVars>>

NextRetry ==
    \/ RetryCall
    \/ RetryLookup
    \/ RetryTimer

\* Every fetch settles and every timer fires.
SpecRetry ==
    Init /\ [][NextRetry]_vars /\ WF_vars(RetryLookup) /\ WF_vars(RetryTimer)

(***************************************************************************)
(* The submit handler's confirmation path on its own.  The user may submit *)
(* the form whenever the submit button is enabled, click the dialog's      *)
(* buttons or its backdrop while the dialog is displayed, and press keys   *)
(* at any time; each transfer is one call of uploadFileInChunks that       *)
(* settles at some point.                                                  *)
(***************************************************************************)
MaxSubmits == 3

\* file.size > 1024 * 1024 * 1024 asks for a confirmation.
LargeFileSize == 1024 * 1024 * 1024

NeedsConfirmation(size) == size > LargeFileSize

DialogFileSizes == {LargeFileSize, LargeFileSize + 1}

\* The listeners showAlertDialog registers, each with { once: true }.
Listeners == {"cancel", "continue", "keydown", "backdrop"}

Pending(d) == d.decision = None

\* The calls whose listener of the given kind is still registered.
Listening(kind) == {i \in DOMAIN dialogs : kind \in dialogs[i].listeners}

\* The listeners of the calls in S have run handleCancel or handleContinue
\* (resolve settles a promise once) and the listeners in `gone` have been
\* removed, having fired.
Decide(S, value, gone) ==
    [i \in DOMAIN dialogs |->
        [decision |-> IF i \in S /\ Pending(dialogs[i])
                      THEN Some(value) ELSE dialogs[i].decision,
         listeners |-> dialogs[i].listeners \ gone]]

\* hideAlertDialog, once per handler that ran.
HideAlertDialog(S) ==
    /\ alertState' = IF S = {} THEN alertState ELSE "closed"
    /\ hideTimers' = hideTimers + Cardinality(S)

\* A submit event.  A large file opens the dialog and waits; any other
\* starts the transfer at once.
PageSubmit(size) ==
    /\ ~submitDisabled
    /\ submits < MaxSubmits
    /\ submits' = submits + 1
    /\ IF NeedsConfirmation(size)
       THEN /\ alertHidden' = FALSE
            /\ alertState' = "open"
            /\ dialogs' = Append(dialogs, [decision |-> None,
                                           listeners |-> Listeners])
            /\ UNCHANGED <<submitDisabled, uploads>>
       ELSE /\ submitDisabled' = showLoading
            /\ uploads' = uploads + 1
            /\ UNCHANGED <<alertHidden, alertState, dialogs>>
    /\ UNCHANGED hideTimers
    /\ UNCHANGED <<transferVars, relayVars, workerVars, retryVars, twoVars>>

\* A click on Cancel: every handleCancel still registered on the button
\* runs; the click bubbles to alertDialog and uses up its listeners.
ClickCancel ==
    /\ ~alertHidden
    /\ Listening("cancel") \cup Listening("backdrop") # {}
    /\ dialogs' = Decide(Listening("cancel"), FALSE, {"cancel", "backdrop"})
    /\ HideAlertDialog(Listening("cancel"))
    /\ UNCHANGED <<alertHidden, uploads, submits, submitDisabled>>
    /\ UNCHANGED <<transferVars, relayVars, workerVars, retryVars, twoVars>>

\* A click on Continue: every handleContinue still registered runs, and
\* each submit handler it resumes calls showLoading and uploadFileInChunks.
ClickContinue ==
    LET S == Listening("continue")
        resumed == {i \in S : Pending(dialogs[i])}
    IN  /\ ~alertHidden
        /\ S \cup Listening("backdrop") # {}
        /\ dialogs' = Decide(S, TRUE, {"continue", "backdrop"})
        /\ HideAlertDialog(S)
        /\ uploads' = uploads + Cardinality(resumed)
        /\ submitDisabled' = IF resumed = {} THEN submitDisabled
                             ELSE showLoading
        /\ UNCHANGED <<alertHidden, submits>>
        /\ UNCHANGED <<transferVars, relayVars, workerVars, retryVars, twoVars>>

\* A click on the backdrop itself: e.target === alertDialog.
ClickBackdrop ==
    /\ ~alertHidden
    /\ Listening("backdrop") # {}
    /\ dialogs' = Decide(Listening("backdrop"), FALSE, {"backdrop"})
    /\ HideAlertDialog(Listening("backdrop"))
    /\ UNCHANGED <<alertHidden, uploads, submits, submitDisabled>>
    /\ UNCHANGED <<transferVars, relayVars, workerVars, retryVars, twoVars>>

\* A keydown on the document: Escape cancels, any other key only uses up
\* the listeners.
KeyDown(escape) ==
    LET S == IF escape THEN Listening("keydown") ELSE {}
    IN  /\ Listening("keydown") # {}
        /\ dialogs' = Decide(S, FALSE, {"keydown"})
        /\ HideAlertDialog(S)
        /\ UNCHANGED <<alertHidden, uploads, submits, submitDisabled>>
        /\ UNCHANGED <<transferVars, relayVars, workerVars, retryVars, twoVars>>

\* A timer of hideAlertDialog fires.
HideTimer ==
    /\ hideTimers > 0
    /\ hideTimers' = hideTimers - 1
    /\ alertHidden' = TRUE
    /\ UNCHANGED <<alertState, dialogs, uploads, submits, submitDisabled>>
    /\ UNCHANGED <<transferVars, relayVars, workerVars, retryVars, twoVars>>

\* A transfer settles: uploadFileInChunks returns or throws, and
\* hideLoading runs either way.
UploadSettles ==
    /\ uploads > 0
    /\ uploads' = uploads - 1
    /\ submitDisabled' = hideLoading
    /\ UNCHANGED <<alertHidden, alertState, dialogs, hideTimers, submits>>
    /\ UNCHANGED <<transferVars, relayVars, workerVars, retryVars, twoVars>>

NextDialog ==
    \/ \E size \in DialogFileSizes : PageSubmit(size)
    \/ ClickCancel
    \/ ClickContinue
    \/ ClickBackdrop
    \/ \E escape \in BOOLEAN : KeyDown(escape)
    \/ HideTimer
    \/ UploadSettles

SpecDialog == Init /\ [][NextDialog]_vars

(***************************************************************************)
(* Two pages against one worker.  Each page runs one transfer; the steps   *)
(* of the two transfers interleave freely.  The upstream issues a handle   *)
(* it has not issued before.  Every step of a page is also taken by the    *)
(* page's copy in a world of its own, with the same file, the same answers *)
(* of the credential provider and the same upstream faults.                *)
(***************************************************************************)
TwoSizePairs ==
    {<<MaxFileSize, MaxChunkSize>>, <<MaxChunkSize, MaxChunkSize>>,
     <<MaxChunkSize + 1, 1>>}

FreshOpenAnswers(st) ==
    {open \in OpenAnswers :
        IsSome(open.location) => Get(open.location) \notin Issued(st)}

TwoSubmit(t, f, cs) ==
    /\ tabs[t].pc = "Idle"
    /\ ~tabs[t].submitDisabled
    /\ tabs' = [tabs EXCEPT ![t] = TabSubmit(tabs[t], f, cs)]
    /\ alone' = [alone EXCEPT
                    ![t] = World(TabSubmit(alone[t].tab, f, cs),
                                 alone[t].store)]
    /\ UNCHANGED store
    /\ UNCHANGED <<driverVars, relayVars, workerVars, retryVars, dialogVars>>

\* The worker handles the request of page t that is in flight.
TwoRelay(t, tok, open, fault) ==
    /\ IsSome(tabs[t].out)
    /\ LET w == WorldRelay(World(tabs[t], store), tok, open, fault) IN
        /\ tabs' = [tabs EXCEPT ![t] = w.tab]
        /\ store' = w.store
    /\ alone' = [alone EXCEPT ![t] = WorldRelay(alone[t], tok, open, fault)]
    /\ UNCHANGED <<driverVars, relayVars, workerVars, retryVars, dialogVars>>

TwoRelayInit(t) ==
    \E tok \in TokenAnswers, open \in FreshOpenAnswers(store) :
        /\ IsSome(tabs[t].out)
        /\ Get(tabs[t].out).kind = "init"
        /\ TwoRelay(t, tok, open, None)

TwoRelayChunk(t) ==
    \E fault \in Faults :
        /\ IsSome(tabs[t].out)
        /\ Get(tabs[t].out).kind = "chunk"
        /\ TwoRelay(t, CHOOSE tok \in TokenAnswers : tok.ok,
                    CHOOSE open \in OpenAnswers : ~open.ok, fault)

\* The Driver of page t resumes with the response in flight.
TwoDeliver(t) ==
    /\ IsSome(tabs[t].inb)
    /\ tabs' = [tabs EXCEPT ![t] = WorldDeliver(World(tabs[t], store)).tab]
    /\ alone' = [alone EXCEPT ![t] = WorldDeliver(alone[t])]
    /\ UNCHANGED store
    /\ UNCHANGED <<driverVars, relayVars, workerVars, retryVars, dialogVars>>

NextTwo ==
    \/ \E t \in Tabs, p \in TwoSizePairs :
           \E f \in Files(p[1]) : TwoSubmit(t, f, p[2])
    \/ \E t \in Tabs : TwoRelayInit(t)
    \/ \E t \in Tabs : TwoRelayChunk(t)
    \/ \E t \in Tabs : TwoDeliver(t)

SpecTwo == Init /\ [][NextTwo]_vars

(***************************************************************************)
(*                              Properties                                 *)
(***************************************************************************)
RangeStart(j) == Get(sent[j].chunkStart)
RangeEnd(j) == Get(sent[j].chunkEnd)
IsLastFlag(j) == Get(sent[j].isLastChunk) = "true"

\* The declared ranges of the chunks sent so far start at 0, are non-empty
\* and each begins right after the previous one ends.
RangesContiguous ==
    /\ Len(sent) > 0 => RangeStart(1) = 0
    /\ \A j \in 1 .. Len(sent) : RangeStart(j) <= RangeEnd(j)
    /\ \A j \in 1 .. Len(sent) - 1 : RangeStart(j + 1) = RangeEnd(j) + 1

(***************************************************************************)
(* C1: a transfer in which every chunk call succeeds sends exactly         *)
(* ceil(totalSize / chunkSize) chunks, whose declared inclusive ranges, in *)
(* the order sent, start at 0, are increasing and contiguous, and end at   *)
(* totalSize - 1; the 25 000 000 byte example with 10 MiB chunks sends     *)
(* [0,10485759], [10485760,20971519], [20971520,24999999].                 *)
(***************************************************************************)
C1_ChunkRangesPartitionFile ==
    /\ RangesContiguous
    /\ pc = "Complete" =>
        /\ (Len(sent) - 1) * CHUNK_SIZE < file.size
        /\ file.size <= Len(sent) * CHUNK_SIZE
        /\ RangeEnd(Len(sent)) = file.size - 1
        /\ (file.size = 25000000 /\ CHUNK_SIZE = 10485760) =>
               [j \in 1 .. Len(sent) |-> <<RangeStart(j), RangeEnd(j)>>]
                   = << <<0, 10485759>>, <<10485760, 20971519>>,
                        <<20971520, 24999999>> >>

\* A completed transfer of the worked example: three chunks, the last short.
C1_Witness ==
    /\ pc = "Complete"
    /\ file.size = 25000000
    /\ Len(sent) = 3
    /\ sent[3].len < CHUNK_SIZE

(***************************************************************************)
(* C2 (as stated): in every transfer exactly one of the chunks sent        *)
(* carries isLast = true, it is the final chunk sent and its rangeEnd is   *)
(* totalSize - 1; every other chunk carries isLast = false.  Stated of a   *)
(* transfer that has ended.                                                *)
(***************************************************************************)
C2_ExactlyOneLastInEveryTransfer ==
    pc \in {"Complete", "Aborted"} =>
        /\ Cardinality({j \in 1 .. Len(sent) : IsLastFlag(j)}) = 1
        /\ \A j \in 1 .. Len(sent) :
               IsLastFlag(j) =>
                   j = Len(sent) /\ RangeEnd(j) = file.size - 1

(***************************************************************************)
(* C2 (amended): in every transfer at most one of the chunks sent carries  *)
(* isLast = true, and a chunk that does is the final chunk sent, has index *)
(* totalChunks - 1 and rangeEnd = totalSize - 1; every other chunk carries *)
(* isLast = false; a transfer that completes has sent exactly one such     *)
(* chunk.                                                                  *)
(***************************************************************************)
C2_AtMostOneLastAndExactlyOneWhenComplete ==
    /\ Cardinality({j \in 1 .. Len(sent) : IsLastFlag(j)}) <= 1
    /\ \A j \in 1 .. Len(sent) :
           /\ Get(sent[j].isLastChunk) \in {"true", "false"}
           /\ IsLastFlag(j) =>
                  /\ j = Len(sent)
                  /\ sent[j].index = totalChunks - 1
                  /\ RangeEnd(j) = file.size - 1
    /\ pc = "Complete" =>
           Cardinality({j \in 1 .. Len(sent) : IsLastFlag(j)}) = 1

\* A completed transfer of several chunks, the last one flagged.
C2_Witness ==
    /\ pc = "Complete"
    /\ Len(sent) >= 2
    /\ IsLastFlag(Len(sent))
    /\ ~IsLastFlag(1)

(***************************************************************************)
(* C3: at most one network call of a transfer is in flight at any time;    *)
(* the session-open call has completed before chunk 0 is sent, and chunk   *)
(* i+1 is not sent until the outcome of chunk i has been received.         *)
(***************************************************************************)
C3_OneCallInFlight ==
    /\ Cardinality(reqs) + Cardinality(resps) <= 1
    /\ Len(sent) > 0 =>
           /\ IsSome(sessionData)
           /\ \A m \in reqs \cup resps : m.kind = "chunk"
    /\ Len(sent) <= Len(outcomes) + 1
    /\ \A m \in reqs \cup resps :
           m.kind = "chunk" => m.index = Len(sent) - 1 /\ m.index = Len(outcomes)

\* The response to a later chunk is in flight, after earlier outcomes.
C3_Witness ==
    /\ pc = "ChunkInFlight"
    /\ chunkIndex >= 1
    /\ Cardinality(resps) = 1
    /\ Len(outcomes) = chunkIndex

C5_AtMostOncePerChunk ==
    /\ \A j, k \in 1 .. Len(sent) : sent[j].index = sent[k].index => j = k
    /\ \A j, k \in 1 .. Len(relayLog) :
           relayLog[j].index = relayLog[k].index => j = k
    /\ \A j \in 1 .. Len(relayLog) : relayLog[j].puts <= 1
    /\ Len(puts) <= Len(relayLog)
    /\ Len(relayLog) <= Len(sent)

\* Several chunks were relayed and the upstream rejected the latest one.
C5_Witness ==
    /\ Len(puts) >= 2
    /\ failedAt # {}
    /\ IsSome(lastUp) /\ Get(lastUp).status = 500

(***************************************************************************)
(* The relay on one request (SpecRelay).                                   *)
(***************************************************************************)
Handled == IsSome(relayOut)
HReq == Get(relayReq)
HUp == Get(relayUp)
HResp == Get(relayOut).resp
HPuts == Get(relayOut).puts

HasSessionUrl(req) == req.sessionUrl # None /\ req.sessionUrl # Some("")

\* The upstream was asked and answered with a status.
Answered == Handled /\ Len(HPuts) > 0 /\ ~HUp.thrown

\* The body is the JSON text of a file record.
ParsesAsFileRecord(body) == body.readable /\ body.text = DriveRecordJson

(***************************************************************************)
(* C6: for every upstream status returned to a chunk PUT the relay         *)
(* answers: 308 gives HTTP 200 {ok:true, status:"continue"}; 200 or 201    *)
(* gives HTTP 200 {ok:true, status:"complete"}, with fileData when the     *)
(* body parses as a file record; every other status gives an {error}       *)
(* response with HTTP 500.                                                 *)
(***************************************************************************)
C6_RelayStatusMapping ==
    Answered =>
        /\ HUp.status = 308 =>
               /\ HResp.httpStatus = 200
               /\ HResp.ok
               /\ HResp.status = "continue"
               /\ HResp.error = ""
        /\ HUp.status \in {200, 201} =>
               /\ HResp.httpStatus = 200
               /\ HResp.ok
               /\ HResp.status = "complete"
               /\ HResp.error = ""
               /\ ParsesAsFileRecord(HUp.body) =>
                      HResp.fileData = Some(DriveRecord)
        /\ HUp.status \notin {308, 200, 201} =>
               /\ HResp.httpStatus = 500
               /\ ~HResp.ok
               /\ HResp.status = ""
               /\ HResp.error # ""
               /\ HResp.fileData = None

\* The upstream answered 201 with the file record.
C6_Witness ==
    /\ Answered
    /\ HUp.status = 201
    /\ ParsesAsFileRecord(HUp.body)
    /\ HResp.fileData = Some(DriveRecord)

(***************************************************************************)
(* C7 (as stated): a chunk-upload request whose payload is larger than     *)
(* 100 MiB is rejected with HTTP 413 and an {error} body, and no call to   *)
(* the session handle is made for it; a payload of exactly 100 MiB is not  *)
(* rejected.                                                               *)
(***************************************************************************)
C7_OversizeAlways413 ==
    Handled =>
        /\ HReq.len > 104857600 =>
               /\ HResp.httpStatus = 413
               /\ HResp.error # ""
               /\ HPuts = <<>>
        /\ HReq.len = 104857600 => HResp.httpStatus # 413

(***************************************************************************)
(* C7 (amended): a chunk-upload request that carries a session URL and     *)
(* whose payload is larger than 100 MiB is rejected with HTTP 413 and an   *)
(* {error} body; one without a session URL is rejected with HTTP 400 and   *)
(* an {error} body whatever its size; in both cases no call to the session *)
(* handle is made.  A payload of exactly 100 MiB is not rejected for its   *)
(* size: with a session URL it is forwarded in one PUT.                    *)
(***************************************************************************)
C7_OversizeRejectedBeforeUpstream ==
    Handled =>
        /\ HReq.len > 104857600 =>
               /\ HResp.httpStatus = (IF HasSessionUrl(HReq) THEN 413
                                                             ELSE 400)
               /\ ~HResp.ok
               /\ HResp.error # ""
               /\ HPuts = <<>>
        /\ ~HasSessionUrl(HReq) =>
               /\ HResp.httpStatus = 400
               /\ HResp.error # ""
               /\ HPuts = <<>>
        /\ HReq.len = 104857600 =>
               /\ HResp.httpStatus # 413
               /\ HasSessionUrl(HReq) =>
                      /\ Len(HPuts) = 1
                      /\ HPuts[1].contentLength = 104857600

\* A payload one byte over the limit, addressed to a session.
C7_Witness ==
    /\ Handled
    /\ HReq.len = 104857601
    /\ HasSessionUrl(HReq)
    /\ HResp.httpStatus = 413

(***************************************************************************)
(* The outcome of the latest chunk call, as the Driver received it.        *)
(***************************************************************************)
LastAnswer == Get(lastUp)

\* The upstream finalized the upload but its body is not a file record.
FinalizedUnparseable(up) ==
    /\ ~up.thrown
    /\ up.status \in {200, 201}
    /\ ~ParsesAsFileRecord(up.body)

\* The latest chunk call was rejected by the upstream with an error status.
RejectedByUpstream ==
    /\ pc = "Aborted"
    /\ Len(outcomes) > 0
    /\ outcomes[Len(outcomes)] = "failed"
    /\ IsSome(lastUp)
    /\ ~LastAnswer.thrown
    /\ LastAnswer.status \notin {308, 200, 201}

(***************************************************************************)
(* C8: if the upstream answers the final chunk with 200/201 and a body     *)
(* that cannot be parsed as a file record, the relay still reports         *)
(* complete, without fileData, and the Driver ends in success showing a    *)
(* record with the locally known name, size and mimeType and the sentinel  *)
(* id; no error is shown.                                                  *)
(***************************************************************************)
C8_UnparseableEchoStillSucceeds ==
    /\ \A env \in resps :
           (env.kind = "chunk" /\ FinalizedUnparseable(env.up)) =>
               /\ env.resp.httpStatus = 200
               /\ env.resp.ok
               /\ env.resp.status = "complete"
               /\ env.resp.fileData = None
    /\ (/\ IsSome(lastUp)
        /\ FinalizedUnparseable(LastAnswer)
        /\ Len(outcomes) = totalChunks) =>
           /\ pc = "Complete"
           /\ statusMessage.kind = "success"
           /\ statusMessage.text = ""
           /\ statusMessage.file =
                  Some([name     |-> file.name,
                        size     |-> file.size,
                        mimeType |-> IF file.type = ""
                                         THEN "application/octet-stream"
                                         ELSE file.type,
                        id       |-> "Upload completed successfully"])
           /\ ~submitDisabled

\* A multi-chunk transfer completed on a 201 whose body was not JSON.
C8_Witness ==
    /\ pc = "Complete"
    /\ Len(sent) >= 2
    /\ IsSome(lastUp)
    /\ LastAnswer.status = 201
    /\ LastAnswer.body.text = "quota exceeded"
    /\ statusMessage.kind = "success"

(***************************************************************************)
(* C9 (as stated): when the upstream rejects the k-th chunk (1-indexed)    *)
(* with an error status and body text B, the message the Driver surfaces   *)
(* is exactly "Chunk k upload failed: B".                                  *)
(***************************************************************************)
C9_MessageIsChunkAndBody ==
    (RejectedByUpstream /\ LastAnswer.body.readable) =>
        statusMessage.text =
            "Chunk " \o ToString(chunkIndex + 1) \o " upload failed: "
                \o LastAnswer.body.text

(***************************************************************************)
(* C9 (amended): when the upstream rejects the k-th chunk (1-indexed)      *)
(* with error status S and body text B, the message the Driver surfaces is *)
(* exactly "Upload failed: Chunk k upload failed: Upload failed with       *)
(* status S: B" (B empty when the body cannot be read); HTTP 500 with body *)
(* "quota exceeded" on the third chunk surfaces "Upload failed: Chunk 3    *)
(* upload failed: Upload failed with status 500: quota exceeded".          *)
(***************************************************************************)
C9_MessageWrapsStatusAndBody ==
    RejectedByUpstream =>
        /\ statusMessage.kind = "error"
        /\ chunkIndex + 1 = Len(sent)
        /\ statusMessage.text =
               "Upload failed: Chunk " \o ToString(Len(sent))
                   \o " upload failed: Upload failed with status "
                   \o ToString(LastAnswer.status) \o ": "
                   \o (IF LastAnswer.body.readable
                           THEN LastAnswer.body.text ELSE "")
        /\ (/\ Len(sent) = 3
            /\ LastAnswer.status = 500
            /\ LastAnswer.body.readable
            /\ LastAnswer.body.text = "quota exceeded") =>
               statusMessage.text =
                   "Upload failed: Chunk 3 upload failed: Upload failed with status 500: quota exceeded"

\* The third chunk was rejected with 500 "quota exceeded".
C9_Witness ==
    /\ RejectedByUpstream
    /\ Len(sent) = 3
    /\ LastAnswer.status = 500
    /\ LastAnswer.body.readable
    /\ LastAnswer.body.text = "quota exceeded"

(***************************************************************************)
(* C10: the Driver never accepts a continue outcome for the chunk flagged  *)
(* isLast nor a complete outcome for a chunk not flagged isLast: when the  *)
(* upstream answers out of order the chunk counts as rejected, so every    *)
(* outcome the Driver has accepted agrees with the chunk's flag and a      *)
(* transfer shown as complete ended on a complete outcome.                 *)
(***************************************************************************)
C10_OutcomeAgreesWithLastFlag ==
    /\ \A j \in 1 .. Len(outcomes) :
           /\ outcomes[j] = "continue" => ~IsLastFlag(j)
           /\ outcomes[j] = "complete" => IsLastFlag(j)
    /\ pc = "Complete" => outcomes[Len(outcomes)] = "complete"

(***************************************************************************)
(* Progress accounting.                                                    *)
(***************************************************************************)
\* The step starts a new transfer (showLoading resets the progress).
StartsTransfer == pc \in {"Idle", "Complete", "Aborted"} /\ pc' = "SessionPending"

\* The step receives an ok response to the chunk in flight.
ChunkSucceeds ==
    /\ Len(outcomes') = Len(outcomes) + 1
    /\ outcomes'[Len(outcomes')] # "failed"

\* Every chunk of the file has been sent and has succeeded.
LastChunkSucceeded ==
    /\ Len(outcomes) = Len(sent)
    /\ Len(sent) > 0
    /\ IsLastFlag(Len(sent))
    /\ outcomes[Len(outcomes)] # "failed"

(***************************************************************************)
(* C11: during a transfer (of a non-empty file) bytesSent starts at 0,     *)
(* changes only when a chunk call succeeds, then increases by exactly the  *)
(* byte length of the chunk just sent, never decreases, never exceeds      *)
(* totalSize, and equals totalSize exactly when the last chunk has         *)
(* succeeded.                                                              *)
(***************************************************************************)
C11_BytesSentAccounting ==
    /\ [](/\ uploadedBytes >= 0
          /\ uploadedBytes <= file.size
          /\ pc = "SessionPending" => uploadedBytes = 0
          /\ file.size > 0 =>
                 (uploadedBytes = file.size <=> LastChunkSucceeded))
    /\ [][~StartsTransfer =>
            /\ uploadedBytes' >= uploadedBytes
            /\ uploadedBytes' # uploadedBytes => ChunkSucceeds
            /\ ChunkSucceeds =>
                   /\ sent[Len(outcomes')].len > 0
                   /\ uploadedBytes' =
                          uploadedBytes + sent[Len(outcomes')].len]_vars
    /\ [][StartsTransfer => uploadedBytes' = 0]_vars

\* Two chunks of a longer transfer have succeeded, more remain.
C11_Witness ==
    /\ pc = "ChunkInFlight"
    /\ Len(outcomes) = 2
    /\ uploadedBytes = 2 * CHUNK_SIZE
    /\ uploadedBytes < file.size

(***************************************************************************)
(* C12 (as stated): the displayed percentage is 100 only once the last     *)
(* chunk has been sent, never after an earlier chunk.                      *)
(***************************************************************************)
C12_HundredOnlyAfterLastChunk ==
    (Len(outcomes) > 0 /\ percentage = 100) => LastChunkSucceeded

(***************************************************************************)
(* C12 (amended): the displayed percentage after each successful chunk is  *)
(* round(bytesSent / totalSize * 100); it is 100 after the last chunk, and *)
(* after an earlier chunk exactly when the bytes that remain are at most   *)
(* 0.5% of totalSize.  The 25 000 000 byte example shows 42, 84, 100; a    *)
(* file of 10 MiB + 1 byte shows 100 after the first of its two chunks.    *)
(***************************************************************************)
C12_PercentageIsRounded ==
    (file.size > 0 /\ Len(outcomes) > 0
        /\ outcomes[Len(outcomes)] # "failed") =>
        /\ file.size <= 1000 =>
               /\ 2 * file.size * percentage <= 200 * uploadedBytes + file.size
               /\ 200 * uploadedBytes + file.size
                      < 2 * file.size * (percentage + 1)
        /\ (file.size = 25000000 /\ CHUNK_SIZE = 10485760) =>
               percentage = << 42, 84, 100 >>[Len(outcomes)]
        /\ (file.size = 10485761 /\ CHUNK_SIZE = 10485760) =>
               percentage = 100
        /\ LastChunkSucceeded => percentage = 100
        /\ percentage = 100 <=>
               (file.size - uploadedBytes) <= file.size \div 200

\* 100% is shown while the second chunk of 10 MiB + 1 byte is still unsent.
C12_Witness ==
    /\ file.size = 10485761
    /\ Len(outcomes) = 1
    /\ outcomes[1] # "failed"
    /\ pc = "ChunkInFlight"
    /\ percentage = 100

(***************************************************************************)
(*                     The worker's routes and responses                   *)
(***************************************************************************)
WReq == Get(workerReq)
WOut == Get(workerOut)

\* The worker has run handleUploadInit on the request.
InitHandled ==
    /\ IsSome(workerReq)
    /\ WReq.path = "/api/upload-init"
    /\ WReq.method = "POST"

\* The body names no filename, or an empty one, or no size, or size 0.
LacksNameOrSize(raw) ==
    \/ ~IsSome(raw.filename) \/ Get(raw.filename) = ""
    \/ ~IsSome(raw.size) \/ Get(raw.size) = 0

RejectedAsMissing(out) ==
    /\ out.resp.httpStatus = 400
    /\ IsSome(out.resp.json)
    /\ Get(out.resp.json).error = "Missing filename or size"

NoOutboundCall(out) == out.tokenCalls = 0 /\ out.upstreamCalls = 0

\* C13 as stated: every session-open request that lacks a filename or a
\* size is answered 400 "Missing filename or size" without any call to the
\* credential provider or the upstream.
C13_MissingAlways400 ==
    InitHandled /\ LacksNameOrSize(WReq.init)
        => RejectedAsMissing(WOut) /\ NoOutboundCall(WOut)

\* C13 (amended): a session-open request whose body is a JSON object with
\* the filename absent or empty, or the size absent or 0, is answered 400
\* "Missing filename or size"; a body that is not JSON, or is null, is
\* answered 500 with the parse error; in both cases neither the credential
\* provider nor the upstream is called.
C13_MissingFieldsRejectedBeforeAnyCall ==
    InitHandled /\ LacksNameOrSize(WReq.init)
        => /\ NoOutboundCall(WOut)
           /\ WReq.init.json = "object" => RejectedAsMissing(WOut)
           /\ WReq.init.json # "object"
                  => /\ WOut.resp.httpStatus = 500
                     /\ Get(WOut.resp.json).error
                            = ReadInitBody(WReq.init)[2]

C13_Witness ==
    /\ InitHandled
    /\ WReq.init.json = "object"
    /\ WReq.init.filename = Some("a.bin")
    /\ WReq.init.size = Some(0)
    /\ RejectedAsMissing(WOut)
    /\ NoOutboundCall(WOut)

(***************************************************************************)
(*                           Opening the session                           *)
(***************************************************************************)
\* The open-session calls the upstream received in the current transfer.
OpenCount == Cardinality({j \in 1 .. Len(calls) : calls[j] = "open"})

\* The Driver has the outcome of its session-open call.
SessionOpenSettled == pc \in {"ChunkInFlight", "Complete", "Aborted"}

\* The upstream's answer to the open-session call was not a success, or was
\* a success without a Location header.
OpenRefused ==
    /\ IsSome(lastOpen)
    /\ \/ ~Get(lastOpen).ok
       \/ ~IsSome(Get(lastOpen).location)
       \/ Get(Get(lastOpen).location) = ""

\* C14 as stated: every transfer makes exactly one open-session call.
C14_ExactlyOneOpenPerTransfer ==
    SessionOpenSettled => OpenCount = 1

\* C14 (amended): a transfer makes at most one open-session call to the
\* upstream, and none for a file of size 0; chunks are sent only after that
\* one call; and when its answer is not a success, or is a success without
\* a Location header, the call is not repeated, no session is stored, no
\* chunk is sent, and the Driver, once it has the response, has aborted with
\* the error shown.
C14_OneOpenNoRetryAbortOnFailure ==
    /\ OpenCount <= 1
    /\ IsSome(lastOpen) <=> OpenCount = 1
    /\ file.size = 0 => OpenCount = 0
    /\ sent # <<>> => OpenCount = 1 /\ ~OpenRefused
    /\ OpenRefused
           => /\ sessionData = None
              /\ sent = <<>>
              /\ puts = <<>>
              /\ pc \in {"SessionPending", "Aborted"}
              /\ \A env \in resps :
                     /\ ~env.resp.httpOk
                     /\ env.resp.error
                            = createResumableSession(Get(lastOpen))[2]
              /\ pc = "Aborted"
                     => /\ statusMessage.kind = "error"
                        /\ ~submitDisabled

C14_Witness ==
    /\ pc = "Aborted"
    /\ OpenCount = 1
    /\ OpenRefused
    /\ Get(lastOpen).ok
    /\ sent = <<>>
    /\ statusMessage
           = ShownError("Google did not return resumable session Location"
                            \o " header")

(***************************************************************************)
(*                      What the responses give away                       *)
(***************************************************************************)
\* C15: no response of the worker, on any route and for any request,
\* contains a Google access token.
C15_NoAccessTokenInAnyResponse ==
    IsSome(workerOut) => ~IsSome(WOut.resp.accessToken)

\* C19 as stated: every response of the worker carries
\* Access-Control-Allow-Origin: *.
C19_EveryResponseHasCors ==
    IsSome(workerOut) => WOut.resp.cors

\* C19 (amended): every response built by json() (every JSON success and
\* error response of every route), every preflight response and every
\* relayed upstream response of the proxy carries
\* Access-Control-Allow-Origin: *; the HTML page served for GET / and the
\* 404 "Not found" served for any other unrouted GET path do not.
C19_CorsOnJsonPreflightAndProxy ==
    IsSome(workerOut)
        => /\ WOut.resp.kind \in {"json", "preflight", "upstream"}
                  => WOut.resp.cors
           /\ WOut.resp.kind \in {"html", "text"}
                  => /\ ~WOut.resp.cors
                     /\ WReq.method = "GET"
                     /\ WOut.route \in {"page", "none"}
           /\ WOut.resp.kind = "html" <=> WOut.route = "page"
           /\ WOut.resp.kind = "text" => WOut.resp.httpStatus = 404

C19_Witness ==
    /\ IsSome(workerOut)
    /\ WOut.route = "upload-chunk"
    /\ WOut.resp.httpStatus = 413
    /\ WOut.resp.kind = "json"
    /\ WOut.resp.cors

(***************************************************************************)
(*                    Tokens and upstream-facing calls                     *)
(***************************************************************************)
\* C20 as stated: every upstream-facing call is preceded by its own request
\* to the credential provider.
C20_TokenBeforeEveryUpstreamCall ==
    IsSome(workerOut) => WOut.upstreamCalls <= WOut.tokenCalls

\* C20 (amended): the session open and the metadata lookup (and the legacy
\* upload and the proxy) each request a fresh token from the credential
\* provider before their one upstream call; the chunk relay requests no
\* token at all: its PUT goes to the session handle without one.  No
\* handler makes more than one token request or more than one upstream
\* call per request.
C20_TokenPerCallExceptChunkPut ==
    IsSome(workerOut)
        => /\ WOut.tokenCalls <= 1
           /\ WOut.upstreamCalls <= 1
           /\ WOut.route \in {"upload-init", "file-details", "legacy",
                             "proxy"}
                  => WOut.upstreamCalls <= WOut.tokenCalls
           /\ WOut.route = "upload-chunk"
                  => /\ WOut.tokenCalls = 0
                     /\ WOut.upstreamCalls = 1
                            <=> /\ HasSessionUrl(WReq.chunk)
                                /\ WReq.chunk.len <= MAX_CHUNK_SIZE
           /\ WOut.route \in {"page", "none", "preflight"}
                  => NoOutboundCall(WOut)

C20_Witness ==
    /\ IsSome(workerOut)
    /\ WOut.route = "upload-chunk"
    /\ WOut.upstreamCalls = 1
    /\ WOut.tokenCalls = 0
    /\ Get(WOut.resp.json).status = "continue"

(***************************************************************************)
(*                    The metadata-lookup retry helper                     *)
(***************************************************************************)
\* C16 as stated: after a successful chunked upload the retry helper has
\* been called for the uploaded file.
C16_HelperCalledAfterUpload ==
    pc = "Complete" => retryPc # "Idle"

\* C16 (amended): after a successful chunked upload the retry helper is not
\* called and no metadata lookup is made; the Driver shows the file record
\* of the final chunk's complete outcome, so the id shown is the id that
\* outcome carries, and when the outcome carries no record it shows the
\* fallback record with the local name and the id
\* "Upload completed successfully".
C16_CompleteShowsFinalOutcomeRecord ==
    pc = "Complete"
        => /\ retryPc = "Idle"
           /\ lookups = <<>>
           /\ statusMessage.kind = "success"
           /\ IF /\ ~LastAnswer.thrown
                 /\ LastAnswer.status \in {200, 201}
                 /\ ParsesAsFileRecord(LastAnswer.body)
              THEN Get(statusMessage.file).id
                       = JsonParse(LastAnswer.body)[2].id
              ELSE /\ Get(statusMessage.file).id
                          = "Upload completed successfully"
                   /\ Get(statusMessage.file).name = file.name

C16_Witness ==
    /\ pc = "Complete"
    /\ Len(sent) >= 2
    /\ LastAnswer.status = 200
    /\ ParsesAsFileRecord(LastAnswer.body)
    /\ Get(statusMessage.file).id = DriveRecord.id
    /\ retryPc = "Idle"

\* The lookups of the helper so far that returned a file record.
Successes == {j \in 1 .. Len(lookups) : LookupSucceeded(lookups[j])}

(***************************************************************************)
(* C17: the helper makes at most 5 lookups; it stops at the first one that *)
(* returns a file record and shows that record; after 5 lookups that fail  *)
(* (an error response or a throw) it shows the placeholder record with the *)
(* given file id and the fallback filename as a success, never an error;   *)
(* and once called it terminates.                                          *)
(***************************************************************************)
C17_Invariant ==
    /\ Len(lookups) <= 5
    /\ attempt <= 5
    /\ Successes \subseteq {Len(lookups)}
    /\ retryPc = "Done" <=> (Successes # {} \/ Len(lookups) = 5)
    /\ retryPc = "Done" /\ Successes # {}
           => shown = ShownFile(Get(lookups[Len(lookups)].resp.file))
    /\ retryPc = "Done" /\ Successes = {}
           => /\ shown.kind = "success"
              /\ Get(shown.file).id = fileId
              /\ Get(shown.file).name = fallbackFilename
              /\ Get(shown.file).mimeType = "Unknown"
    /\ shown.kind # "error"
    /\ retryPc # "Done" => shown = StatusHidden

C17_AtMostFiveThenPlaceholder ==
    /\ []C17_Invariant
    /\ (retryPc = "Fetching") ~> (retryPc = "Done")

C17_Witness ==
    /\ retryPc = "Done"
    /\ Len(lookups) = 5
    /\ Successes = {}
    /\ lookups[5].thrown
    /\ ~lookups[1].thrown
    /\ shown = ShownFile(RetryFallbackFile(DriveRecord.id, "upload.bin"))

\* C18 as stated: the waits follow the schedule 1s, 2s, 4s, 8s, 16s.
C18_WaitsStartAtOneSecond ==
    \A j \in 1 .. Len(waits) :
        waits[j] = <<1000, 2000, 4000, 8000, 16000>>[j]

\* C18 (amended): the waits follow the schedule 2s, 4s, 8s, 16s: the first
\* wait, after the first failed attempt, is 2 seconds, each later wait is
\* double the previous one, there are at most four waits, one after each
\* failed attempt but the fifth, and none after the fifth.
C18_WaitsDoubleFromTwoSeconds ==
    /\ Len(waits) <= 4
    /\ \A j \in 1 .. Len(waits) : waits[j] = <<2000, 4000, 8000, 16000>>[j]
    /\ \A j \in 2 .. Len(waits) : waits[j] = 2 * waits[j - 1]
    /\ retryPc = "Waiting" => Len(waits) = Len(lookups)
    /\ retryPc \in {"Fetching", "Done"} /\ Successes = {}
           => Len(waits) = attempt - 1

C18_Witness ==
    /\ retryPc = "Done"
    /\ Len(lookups) = 5
    /\ waits = <<2000, 4000, 8000, 16000>>

(***************************************************************************)
(*                 The relay's failure for a rejected chunk                *)
(***************************************************************************)
\* The upstream answered the PUT with a status other than 308, 200 and 201.
UpstreamRejected == Answered /\ HUp.status \notin {308, 200, 201}

\* C22 as stated: the relay's failure carries the upstream status and the
\* body text verbatim, and the marker "<no body>" when the body cannot be
\* read.
C22_FailureCarriesTextOrSentinel ==
    UpstreamRejected
        => HResp.error
               = "Upload failed with status " \o ToString(HUp.status)
                     \o ": " \o (IF HUp.body.readable THEN HUp.body.text
                                                      ELSE "<no body>")

\* C22 (amended): when the upstream answers a chunk PUT with a status other
\* than 308, 200 or 201, the relay answers HTTP 500 with the error
\* "Upload failed with status S: B", S the upstream status and B the
\* upstream body text verbatim; when the body cannot be read B is the empty
\* text, not a "no body" marker.
C22_FailureCarriesTextOrEmpty ==
    UpstreamRejected
        => /\ HResp.httpStatus = 500
           /\ ~HResp.ok
           /\ HResp.error
                  = "Upload failed with status " \o ToString(HUp.status)
                        \o ": " \o (IF HUp.body.readable THEN HUp.body.text
                                                         ELSE "")

C22_Witness ==
    /\ UpstreamRejected
    /\ HUp.status = 400
    /\ ~HUp.body.readable
    /\ HResp.error = "Upload failed with status 400: "

(***************************************************************************)
(*                            The generic proxy                            *)
(***************************************************************************)
\* C24: for every method, a request whose path starts with /api/proxy/ is
\* handled by the proxy and by no other handler.
C24_ProxyPathAlwaysProxied ==
    IsSome(workerOut) /\ IsProxyPath(WReq.path) => WOut.route = "proxy"

\* C25: every failure while the proxy handles a request, a failed token
\* request included, ends in an HTTP 500 JSON {error} response with the
\* underlying message; the handler never ends in an uncaught exception.
C25_ProxyFailureIsJson500 ==
    (/\ IsSome(workerOut)
     /\ WOut.route = "proxy"
     /\ WOut.resp.kind \notin {"preflight", "upstream"})
        => /\ WOut.resp.kind = "json"
           /\ WOut.resp.httpStatus = 500
           /\ Get(WOut.resp.json).error # ""

(***************************************************************************)
(*                     The session handle of a transfer                    *)
(***************************************************************************)
\* The handle returned by the transfer's successful session open.
OwnHandle == Get(lastOpen).location

(***************************************************************************)
(* C26: every chunk request of a transfer carries, as X-Session-Url, the   *)
(* sessionUrl returned by that transfer's own successful session open, and *)
(* every PUT of the transfer goes to it; the stored session does not       *)
(* change while the transfer runs; and no chunk is sent when the session   *)
(* open returned no handle.                                                *)
(***************************************************************************)
C26_Invariant ==
    /\ sessionData = None => sent = <<>> /\ puts = <<>>
    /\ IsSome(sessionData)
           => /\ IsSome(lastOpen)
              /\ ~OpenRefused
              /\ Get(sessionData).sessionUrl = OwnHandle
    /\ \A j \in 1 .. Len(sent) : sent[j].sessionUrl = OwnHandle
    /\ \A j \in 1 .. Len(puts) : puts[j].url = Get(OwnHandle)
    /\ \A req \in reqs : req.kind = "chunk" => req.sessionUrl = OwnHandle

C26_ChunksAddressOwnSession ==
    /\ []C26_Invariant
    /\ [][IsSome(sessionData) /\ ~StartsTransfer
              => sessionData' = sessionData]_vars

C26_Witness ==
    /\ pc = "Complete"
    /\ Len(sent) = 3
    /\ Len(puts) = 3
    /\ OwnHandle = Some(OtherSessionUrl)
    /\ \A j \in 1 .. 3 : sent[j].sessionUrl = Some(OtherSessionUrl)

(***************************************************************************)
(*                      What the Driver reports, and when                  *)
(***************************************************************************)
\* The step is the Driver receiving the response to the chunk in flight.
ChunkResponseReceived == Len(outcomes') = Len(outcomes) + 1

AllChunksOk ==
    /\ IsSome(sessionData)
    /\ Len(outcomes) = totalChunks
    /\ \A j \in 1 .. Len(outcomes) : outcomes[j] \in {"continue", "complete"}

(***************************************************************************)
(* C27: the Driver shows success exactly when the session open succeeded   *)
(* and each of the totalChunks chunk calls returned an ok response; after  *)
(* an ok response, whether it said continue or complete, the Driver goes   *)
(* to the next index, or to Complete after the last index; it aborts only  *)
(* after a response that is not ok or a call that was lost.                *)
(***************************************************************************)
C27_SuccessIffAllChunksOk ==
    /\ [](/\ pc = "Complete" <=> AllChunksOk
          /\ statusMessage.kind = "success" <=> pc = "Complete"
          /\ pc = "Aborted" /\ IsSome(sessionData) => failedAt # {})
    /\ [][ChunkResponseReceived =>
            \A env \in resps \ resps' :
                /\ env.resp.httpOk
                       => /\ chunkIndex' = chunkIndex + 1
                          /\ pc' = IF chunkIndex + 1 < totalChunks
                                       THEN "ChunkInFlight"
                                       ELSE "Complete"
                /\ ~env.resp.httpOk => pc' = "Aborted"]_vars

\* A transfer shown as a success whose first chunk was answered complete
\* and whose last chunk was answered continue.
C27_Witness ==
    /\ pc = "Complete"
    /\ Len(outcomes) = 3
    /\ outcomes[1] = "complete"
    /\ outcomes[3] = "continue"
    /\ statusMessage.kind = "success"

(***************************************************************************)
(* C28: for every chunk size the Driver can select (1 MiB to 100 MiB, and  *)
(* 10 MiB when the select holds no valid option) every chunk payload is at *)
(* most chunkSize and at most 100 MiB, and the relay rejects no chunk of   *)
(* the transfer as too large.                                              *)
(***************************************************************************)
C28_NoDriverChunkTooLarge ==
    /\ CHUNK_SIZE <= 104857600
    /\ \A j \in 1 .. Len(sent) :
           /\ sent[j].len <= CHUNK_SIZE
           /\ sent[j].len <= 104857600
    /\ \A env \in resps : env.resp.httpStatus # 413
    /\ Len(puts) = Len(relayLog)

\* The relay has passed on a chunk of exactly 100 MiB.
C28_Witness ==
    /\ CHUNK_SIZE = 104857600
    /\ Len(sent) = 2
    /\ sent[1].len = 104857600
    /\ Len(puts) = 2
    /\ outcomes = <<"continue">>

(***************************************************************************)
(*                        The life of a transfer                           *)
(***************************************************************************)
InProgress == pc \in {"SessionPending", "ChunkInFlight"}

Terminal == pc \in {"Complete", "Aborted"}

\* The moves of the state machine Idle -> SessionPending -> ChunkInFlight(0)
\* -> ... -> ChunkInFlight(totalChunks - 1) -> Complete, with Aborted from
\* a transfer in progress and a new transfer from a terminal state.
AllowedMove ==
    \/ pc' = pc /\ chunkIndex' = chunkIndex
    \/ pc \in {"Idle", "Complete", "Aborted"} /\ pc' = "SessionPending"
    \/ pc = "SessionPending" /\ pc' = "ChunkInFlight" /\ chunkIndex' = 0
    \/ /\ pc = "ChunkInFlight" /\ pc' = "ChunkInFlight"
       /\ chunkIndex' = chunkIndex + 1
       /\ chunkIndex' < totalChunks
    \/ /\ pc = "ChunkInFlight" /\ pc' = "Complete"
       /\ chunkIndex = totalChunks - 1
    \/ InProgress /\ pc' = "Aborted"

(***************************************************************************)
(* C23: a transfer moves only along Idle -> SessionPending ->              *)
(* ChunkInFlight(0) -> ... -> ChunkInFlight(totalChunks - 1) -> Complete,  *)
(* or to Aborted; when every network call returns or fails, every started  *)
(* transfer reaches Complete or Aborted; and in these two states, and only *)
(* outside a transfer in progress, the submit button is enabled.           *)
(***************************************************************************)
C23_LifecycleAndTermination ==
    /\ [][AllowedMove]_vars
    /\ [](/\ pc \in {"Idle", "SessionPending", "ChunkInFlight", "Complete",
                     "Aborted"}
          /\ pc = "ChunkInFlight" => chunkIndex \in 0 .. totalChunks - 1
          /\ submitDisabled <=> InProgress
          /\ Terminal => reqs = {} /\ resps = {}
          /\ pc = "Complete" => statusMessage.kind = "success"
          /\ pc = "Aborted" => statusMessage.kind = "error")
    /\ InProgress ~> Terminal

C23_Witness ==
    /\ pc = "Aborted"
    /\ chunkIndex = 1
    /\ totalChunks = 3
    /\ ~submitDisabled
    /\ Len(outcomes) = 1

\* A showAlertDialog call is waiting for the user's decision.
DialogPending == \E i \in DOMAIN dialogs : Pending(dialogs[i])

\* C29: whenever a large-file confirmation dialog is waiting for the user's
\* decision it is displayed; no timer of an earlier close hides it first.
C29_PendingDialogVisible == DialogPending => ~alertHidden

\* C30: at most one transfer is in progress on the page at any time,
\* however the submits and the confirmation interleave.
C30_AtMostOneTransfer == uploads <= 1

\* What page t's transfer has done to the session of its handle.
OwnSession(s, st) ==
    IF IsSome(s.sessionData) /\ IsSome(Get(s.sessionData).sessionUrl)
           /\ Get(Get(s.sessionData).sessionUrl) \in SessionUrls
    THEN st[Get(Get(s.sessionData).sessionUrl)]
    ELSE None

\* C21: two transfers that run concurrently against the same worker are
\* independent: under every interleaving of their calls, each page's chunk
\* request (ranges and handle), session data, progress and outcome, and the
\* upstream's session behind its handle, are those of the same transfer
\* running alone.
C21_TransfersIndependent ==
    \A t \in Tabs :
        /\ tabs[t] = alone[t].tab
        /\ OwnSession(tabs[t], store) = OwnSession(alone[t].tab, alone[t].store)

\* Both transfers are in the middle of their chunk loops at the same time,
\* each on a handle of its own.
C21_Witness ==
    /\ \A t \in Tabs : /\ tabs[t].pc = "ChunkInFlight"
                       /\ tabs[t].chunkIndex = 1
    /\ Get(tabs[1].sessionData).sessionUrl
           # Get(tabs[2].sessionData).sessionUrl

====
